---- MODULE Spec2Model ----
(***************************************************************************)
(* A model of sphinx_js's TypeDoc analyzer (src/sphinx_js/typedoc.py):     *)
(* the suffix index the analyzer loads its IR objects into, and the        *)
(* Converter that indexes a TypeDoc tree and converts it to IR entities    *)
(* through a worklist.                                                     *)
(*                                                                         *)
(* Five specifications share the module:                                   *)
(*   SpecTree    the suffix index: add(segments, value) and get(segments); *)
(*   Spec        populate_index followed by the convert_all_nodes loop,    *)
(*               one action per kind of node popped from the worklist;     *)
(*   SpecLive    Spec with weak fairness on the program's next step;       *)
(*   SpecParse   parse(json) and fix_exc_errors;                           *)
(*   SpecRender  render_name on one type expression.                       *)
(***************************************************************************)
EXTENDS Integers, Sequences, FiniteSets, TLC

VARIABLES
    tree,      \* SuffixTree._tree: reversed-suffix key -> stored value (NoValue: none)
    added,     \* history of the add calls made so far: the set of <<segments, value>>
    query,     \* the segments of the last get call
    result,    \* the outcome of the last get call
    json,      \* the TypeDoc tree as parse() returned it (never changed)
    nodes,     \* the TypeDoc tree in memory: node id -> node (mutated in place)
    index,     \* Converter.index: from the ids registered to their nodes
    todo,      \* convert_all_nodes' worklist (a stack: pop takes the last element)
    done,      \* convert_all_nodes' output list
    log,       \* history of the Signature.to_ir calls: <<signature id, produced an entity>>
    pops,      \* history of the loop: the ids of the nodes popped from the worklist
    pc,        \* position in Analyzer.__init__: "parsed", "converting", "done", "failed"
    doc,       \* the JSON document given to parse()
    exc,       \* the ValidationError that Project.parse_obj raised, if any
    outcome,   \* how the call of parse() ended
    fix,       \* fix_exc_errors: the locations collected and those re-validated
    ty,        \* the type expression given to render_name
    rendering  \* how the call of render_name ended, and the list it returned

treeVars == <<tree, added, query, result>>
convVars == <<json, nodes, index, todo, done, log, pops, pc>>
parseVars == <<doc, exc, outcome, fix>>
typeVars == <<ty, rendering>>
vars == <<tree, added, query, result, json, nodes, index, todo, done, log, pops,
          pc, doc, exc, outcome, fix, ty, rendering>>

(***************************************************************************)
(* Generic helpers.                                                        *)
(***************************************************************************)
Range(s) == {s[i] : i \in 1..Len(s)}

Rev(s) == [i \in 1..Len(s) |-> s[Len(s) + 1 - i]]

Last(s) == s[Len(s)]

IsSuffix(s, p) ==
    /\ Len(s) <= Len(p)
    /\ \A i \in 1..Len(s) : s[i] = p[Len(p) - Len(s) + i]

RECURSIVE SeqsUpTo(_, _)
SeqsUpTo(S, n) ==
    IF n = 0 THEN {<<>>}
    ELSE LET shorter == SeqsUpTo(S, n - 1)
         IN  shorter \cup {Append(s, x) : s \in shorter, x \in S}

(***************************************************************************)
(* The suffix index (sphinx_js.suffix_tree.SuffixTree, sec. 4.5).          *)
(*                                                                         *)
(* The tree is a trie over path segments read from the end: a node is      *)
(* named by the reversed suffix that leads to it, the root by <<>>.  A     *)
(* node carries the value of the path that ends exactly there, if any.     *)
(***************************************************************************)
MaxPathLen == 3
MaxAdds == 2

Segs == {"a.", "c"}
NoValue == [path |-> <<>>]

\* The value stored with a path: as in Analyzer.__init__, an object that
\* carries the path it is stored under, so every path has a value of its own.
ObjectAt(p) == [path |-> p]

Paths == SeqsUpTo(Segs, MaxPathLen) \ {<<>>}
Queries == SeqsUpTo(Segs, MaxPathLen)

EmptyTree == [k \in {<<>>} |-> NoValue]

\* The keys of the nodes on the way to `segs`: its reversed non-empty suffixes.
KeysOf(segs) == {SubSeq(Rev(segs), 1, n) : n \in 1..Len(segs)}

\* add(segments, value): create the nodes for the segments, last one first,
\* and store the value at the node the whole path leads to.
add(t, segs, v) ==
    [k \in DOMAIN t \cup KeysOf(segs) |->
        IF k = Rev(segs) THEN v
        ELSE IF k \in DOMAIN t THEN t[k]
        ELSE NoValue]

Found(v) == [kind |-> "value", value |-> v]
SuffixNotFound == [kind |-> "SuffixNotFound", value |-> NoValue]
SuffixAmbiguous == [kind |-> "SuffixAmbiguous", value |-> NoValue]
NoResult == [kind |-> "none", value |-> NoValue]

Subtree(t, k) ==
    {c \in DOMAIN t : Len(c) = Len(k) + 1 /\ SubSeq(c, 1, Len(k)) = k}

\* A variant of FollowOnlyChildren that stops at the first value it meets,
\* though longer stored paths continue below it.
RECURSIVE FollowFirstValue(_, _)
FollowFirstValue(t, k) ==
    LET sub == Subtree(t, k)
    IN  IF sub = {} THEN SuffixNotFound
        ELSE IF Cardinality(sub) > 1 THEN SuffixAmbiguous
        ELSE LET c == CHOOSE x \in sub : TRUE
             IN  IF t[c] # NoValue THEN Found(t[c])
                 ELSE FollowFirstValue(t, c)

\* From a node without a value, follow only-children to the one stored path
\* below it; more than one stored path below it is an ambiguity.
RECURSIVE FollowOnlyChildren(_, _)
FollowOnlyChildren(t, k) ==
    LET sub == Subtree(t, k)
    IN  IF sub = {} THEN SuffixNotFound
        ELSE IF Cardinality(sub) > 1 THEN SuffixAmbiguous
        ELSE LET c == CHOOSE x \in sub : TRUE
             IN  IF t[c] # NoValue
                 THEN IF Subtree(t, c) = {} THEN Found(t[c]) ELSE SuffixAmbiguous
                 ELSE FollowOnlyChildren(t, c)

\* A variant of get that treats a stored path with longer paths below it as
\* ambiguous, also when the query is that whole path.
getNoDegenerate(t, segs) ==
    LET k == Rev(segs)
    IN  IF k \notin DOMAIN t THEN SuffixNotFound
        ELSE IF t[k] # NoValue /\ Subtree(t, k) = {} THEN Found(t[k])
        ELSE IF t[k] # NoValue THEN SuffixAmbiguous
        ELSE FollowOnlyChildren(t, k)

\* A variant of get that looks up the last segment only.
getLastSegment(t, segs) ==
    LET k == IF segs = <<>> THEN <<>> ELSE <<Last(segs)>>
    IN  IF k \notin DOMAIN t THEN SuffixNotFound
        ELSE IF t[k] # NoValue THEN Found(t[k])
        ELSE FollowOnlyChildren(t, k)

\* A variant of get that, when a segment has no node, goes on from the
\* deepest node the later segments lead to.
RECURSIVE DeepestKey(_, _, _)
DeepestKey(t, k, n) ==
    IF n = 0 \/ SubSeq(k, 1, n) \in DOMAIN t THEN SubSeq(k, 1, n)
    ELSE DeepestKey(t, k, n - 1)

getDeepestMatch(t, segs) ==
    LET k == DeepestKey(t, Rev(segs), Len(segs))
    IN  IF t[k] # NoValue THEN Found(t[k])
        ELSE FollowOnlyChildren(t, k)

\* get(segments): walk the segments from the end; a missing node is
\* SuffixNotFound; a node that holds a value is the queried path itself
\* (the degenerate case: the suffix is a whole stored path); otherwise the
\* suffix must continue to exactly one stored path.
get(t, segs) ==
    LET k == Rev(segs)
    IN  IF k \notin DOMAIN t THEN SuffixNotFound
        ELSE IF t[k] # NoValue THEN Found(t[k])
        ELSE FollowOnlyChildren(t, k)

StoredPaths == {a[1] : a \in added}
ValueOf(p) == (CHOOSE a \in added : a[1] = p)[2]
EndingWith(s) == {p \in StoredPaths : IsSuffix(s, p)}

(***************************************************************************)
(* The TypeDoc tree (the pydantic node model, typedoc.py lines 275-1107).  *)
(*                                                                         *)
(* A node is a record; the tree is a table from node id to node, and a     *)
(* field that holds nodes (children, signatures, parameters, ...) holds    *)
(* their ids, so that the in-place mutations conversion makes are seen by  *)
(* every holder of the node, as with Python's object references.           *)
(*                                                                         *)
(* A name is a sequence of string chunks whose concatenation is the        *)
(* Python string; a name that starts with "[" has "[" as its first chunk.  *)
(* A path segment is a name and the delimiter appended to it.              *)
(***************************************************************************)
MaxSigs == 2

NoParent == -1

Flags(abstract, optional, private, static) ==
    [isAbstract |-> abstract, isOptional |-> optional, isPrivate |-> private,
     isRest |-> FALSE, isStatic |-> static]

NoFlags == Flags(FALSE, FALSE, FALSE, FALSE)

\* Comment(): no summary, no block tags, and a tags dict without keys.
EmptyComment == [summary |-> <<>>, blockTags |-> <<>>, tags |-> {}]

\* A description item; its text is the sequence of its words (the pieces
\* that single spaces separate).
Text(words) == [kind |-> "text", text |-> words]

\* Comment.__init__: every block tag's name, less its "@", becomes a key of
\* the tags dict.
Comment(summary, blockTags) ==
    [summary |-> summary, blockTags |-> blockTags,
     tags |-> {blockTags[i].name : i \in 1..Len(blockTags)}]

Tag(name, content) == [at |-> TRUE, name |-> name, content |-> content]

\* A source file name: absolute or relative, its directories, and the file's
\* base name and extension.
File(abs, dirs, base, ext) == [abs |-> abs, dirs |-> dirs, base |-> base, ext |-> ext]

NoFile == File(FALSE, <<>>, "", "")

Source(file, line) == [fileName |-> file, line |-> line]

Intrinsic(name) == [type |-> "intrinsic", name |-> name, typeArguments |-> <<>>]

\* ReferenceType.target: an integer id, a Target (a file and a qualified
\* name), or None.
NoTarget == [kind |-> "none"]
IntTarget(id) == [kind |-> "int", id |-> id]
FileTarget(file, qname) ==
    [kind |-> "target", sourceFileName |-> file, qualifiedName |-> qname]

NoPackage == ""

Reference(name, target, package) ==
    [type |-> "reference", name |-> name, typeArguments |-> <<>>,
     target |-> target, package |-> package, refersToTypeParameter |-> FALSE]

\* ReflectionType: the declaration is a node of the tree.
Reflection(decl) ==
    [type |-> "reflection", typeArguments |-> <<>>, declaration |-> decl]

\* AndOrType: kind is "union" or "intersection".
AndOr(kind, types) == [type |-> kind, typeArguments |-> <<>>, types |-> types]

Array(elem) == [type |-> "array", typeArguments |-> <<>>, elementType |-> elem]

\* OperatorType, TupleType, OtherType, UnknownType and PredicateType.
Operator(operator, target) ==
    [type |-> "typeOperator", typeArguments |-> <<>>,
     operator |-> operator, target |-> target]

Tuple(elements) == [type |-> "tuple", typeArguments |-> <<>>, elements |-> elements]

IndexedAccess == [type |-> "indexedAccess", typeArguments |-> <<>>]

Unknown(name) == [type |-> "unknown", typeArguments |-> <<>>, name |-> name]

Predicate(name, targetType) ==
    [type |-> "predicate", typeArguments |-> <<>>,
     name |-> name, targetType |-> targetType]

\* LiteralType: the value is None, an int, or anything else.
LiteralValues == {"None", "int", "other"}
Literal(value) == [type |-> "literal", typeArguments |-> <<>>, value |-> value]

\* The fields of Base and of its subclasses, with their defaults.
Node(kind, name) ==
    [kind |-> kind, name |-> name, id |-> <<>>,
     children |-> <<>>, signatures |-> <<>>,
     getSignature |-> <<>>, setSignature |-> <<>>, parameters |-> <<>>,
     typeParameter |-> <<>>, typeParameters |-> <<>>,
     extendedTypes |-> <<>>, implementedTypes |-> <<>>,
     type |-> Intrinsic("void"), inheritedFrom |-> FALSE,
     comment |-> EmptyComment, flags |-> NoFlags, sources |-> <<>>,
     path |-> <<>>, filename |-> NoFile, parent_member_properties |-> <<>>]

SignatureKinds ==
    {"Constructor signature", "Call signature", "Get signature",
     "Set signature", "Index signature"}

CallableKinds == {"Constructor", "Method", "Function"}
MemberKinds == {"Property", "Variable"}
ClassOrInterfaceKinds == {"Class", "Interface"}
OtherNodeKinds ==
    {"Enumeration", "Enumeration Member", "Namespace", "Type alias", "Reference"}

(***************************************************************************)
(* The input trees.  Every tree has a namespace that holds a function, a   *)
(* class, and a variable declared in a file outside the analyzed tree:     *)
(*                                                                         *)
(*   Project 0                                                             *)
(*     Namespace 6 "ns"  { Function 7 "g", Variable 9 "v" }                *)
(*     Class 1 "C"       { any arrangement of: Constructor 2, Method 3     *)
(*                         "m", Property 4 "f", Accessor 5 "a" }           *)
(*     Variable 8 "ext"  (sources: /usr/lib/ext.d.ts)                      *)
(*     Class 10 "B"                                                        *)
(*     Interface 12 "I"  { Method 13 "foop", Property 14 "boop" }, in some *)
(*                       of the trees                                      *)
(*                                                                         *)
(* A callable c has signatures 10c+1 .. 10c+k, overloads that differ in    *)
(* the type of their parameter x (id 10*signature+1).  The type of a       *)
(* member is number, or the reflection of a type literal (id 100+member)   *)
(* that has one call signature, or two properties p and q.                 *)
(***************************************************************************)
ProjectId == 0
ClassId == 1
CtorId == 2
MethodId == 3
PropId == 4
AccessorId == 5
NamespaceId == 6
FunctionId == 7
ExtId == 8
VarId == 9
BaseId == 10
InterfaceId == 12
IMethodId == 13
IPropId == 14
\* An id that no node of the tree has.
DanglingId == 99

ClassChildIds == {CtorId, MethodId, PropId, AccessorId}

ClassFile == File(FALSE, <<>>, "class", ".ts")
ExtFile == File(TRUE, <<"usr", "lib">>, "ext.d", ".ts")

TypeNames == <<"number", "string", "boolean", "any">>

SigId(c, j) == 10 * c + j
ParamId(sig) == 10 * sig + 1
ClassTypeParamId == 10 * ClassId + 1
OwnTypeParameterId(sig) == 10 * sig + 8
OwnTypeParametersId(sig) == 10 * sig + 9
GetSigId == SigId(AccessorId, 1)
SetSigId == SigId(AccessorId, 2)
\* The anonymous declaration of the type of node n, and its two properties.
LitId(n) == 100 + n
LitChildId(lit, j) == 10 * lit + 4 + j
OptionsId(sig) == 10 * sig + 2

\* The arrangements of the class's children: every subset, in every order.
Arrangements ==
    {o \in SeqsUpTo(ClassChildIds, Cardinality(ClassChildIds)) :
        \A i, j \in 1..Len(o) : i # j => o[i] # o[j]}

FullOrder == <<CtorId, MethodId, PropId, AccessorId>>

\* What varies between the input trees: the arrangement of the class's
\* children, the number of overloads of every callable, where the class
\* and the constructor's first signature keep type parameters, whether the
\* method's first signature is inherited and whether it has a comment,
\* which signatures the accessor has, the types of the property f and of
\* the variable v, where the first signature of the function g has a
\* parameter "options" of an object type, which parameter its
\* destructure tag names, the return type of g's first signature, and
\* what the class extends and implements, which declarations come from a
\* file outside the analyzed tree, the deprecated tag of the function, the
\* class and the property, and which nodes have no id.
DefaultShape ==
    [order |-> FullOrder, nsigs |-> 1, clsTP |-> "none", ctorTP |-> "none",
     inherited |-> FALSE, comment |-> "none", get |-> TRUE, set |-> FALSE,
     prop |-> "number", var |-> "number", opts |-> "none", tag |-> "none",
     ret |-> "default", ext |-> "none", impl |-> "none",
     abs |-> {}, dep |-> "none", noId |-> {}, static |-> {},
     propName |-> "f", iface |-> "none", mflag |-> "none", sflag |-> "none",
     methName |-> "m"]

\* The names of the method and of its signatures: an identifier, or a
\* symbol ("[iterator]" is what TypeDoc gives for [Symbol.iterator]).
MethodNames == {"m", "symbol"}
MethodName(sh) ==
    IF sh.methName = "symbol" THEN <<"[", "iterator", "]">> ELSE <<"m">>

MemberTypes == {"number", "callable", "object"}
PromiseSorts == {"promise", "promiseUnion", "promiseArray", "promiseIntrinsic"}
ReferenceSorts ==
    {"refExternal", "refInternal", "refTP", "refZero", "refAbsent", "refDangling"}
RelatedSorts == {"none", "known", "dangling", "external", "mixed"}

\* The flag a declaration or a signature has, if any.
FlagNames == {"none", "abstract", "optional", "private", "static"}

\* The declarations whose first source file is outside the analyzed tree:
\* a child of the class, or the namespace with what it holds.
AbsoluteSets ==
    {{c} : c \in ClassChildIds} \cup {{NamespaceId, FunctionId, VarId}}

\* The declarations that are static.
StaticSets == {{}, {MethodId}, {PropId, AccessorId}, {PropId, FunctionId}}

\* The nodes that have no id.
NoIdSets == {{}, {VarId}, {SigId(MethodId, 1), ParamId(SigId(MethodId, 1))}}

\* The trees are those of every arrangement with every kind of method,
\* those of the full class with every combination of type parameters and
\* accessor signatures, and those of the full class with every type of
\* the property and of the variable, those of every place of the
\* parameter "options" with and without the destructure tag, those of
\* every return type of g, and those of every reference as the type of
\* the property with everything the class extends and implements, those
\* with a declaration from outside the analyzed tree, and those with and
\* without deprecated tags and nodes without an id, and those with static
\* declarations and with the property named as the method is, one of the
\* two being static, those with every flag on the method and on its first
\* signature, and those with an interface I { foop(); boop: number },
\* its members optional or not, that extends what the class extends.
Shapes ==
    {[DefaultShape EXCEPT !.order = o, !.nsigs = k, !.inherited = i,
                          !.comment = c] :
        o \in Arrangements, k \in 1..MaxSigs, i \in BOOLEAN,
        c \in {"none", "summary"}}
    \cup
    {[DefaultShape EXCEPT !.nsigs = k, !.clsTP = a, !.ctorTP = b,
                          !.get = g, !.set = t] :
        k \in 1..MaxSigs, a \in {"none", "typeParameter", "typeParameters"},
        b \in {"none", "typeParameter", "typeParameters"},
        g \in BOOLEAN, t \in BOOLEAN}
    \cup
    {[DefaultShape EXCEPT !.prop = a, !.var = b] :
        a \in MemberTypes, b \in MemberTypes}
    \cup
    {[DefaultShape EXCEPT !.opts = o, !.tag = t] :
        o \in {"first", "last", "only"}, t \in {"none", "options"}}
    \cup
    {[DefaultShape EXCEPT !.ret = r, !.nsigs = k] :
        r \in PromiseSorts \cup ReferenceSorts, k \in 1..MaxSigs}
    \cup
    {[DefaultShape EXCEPT !.prop = a, !.ext = e, !.impl = i] :
        a \in {"number"} \cup ReferenceSorts, e \in RelatedSorts,
        i \in RelatedSorts}
    \cup
    {[DefaultShape EXCEPT !.abs = a, !.get = g, !.set = ~g] :
        a \in AbsoluteSets, g \in BOOLEAN}
    \cup
    {[DefaultShape EXCEPT !.dep = d, !.noId = n] :
        d \in {"none", "text", "empty"}, n \in NoIdSets}
    \cup
    {[DefaultShape EXCEPT !.static = a, !.propName = n] :
        a \in StaticSets, n \in {"f"}}
    \cup
    {[DefaultShape EXCEPT !.mflag = a, !.sflag = b] :
        a \in FlagNames, b \in FlagNames}
    \cup
    {[DefaultShape EXCEPT !.iface = a, !.ext = e] :
        a \in {"plain", "optional"}, e \in RelatedSorts}
    \cup
    {[DefaultShape EXCEPT !.static = a, !.propName = n] :
        a \in StaticSets \ {{}}, n \in {"m"}}
    \cup
    {[DefaultShape EXCEPT !.methName = n, !.prop = t, !.iface = a] :
        n \in MethodNames \ {"m"}, t \in MemberTypes, a \in {"none", "plain"}}

SigIds(c, k) == [j \in 1..k |-> SigId(c, j)]

\* The nodes of callable c: the callable, its k signatures and their
\* parameters.
CallableNodes(c, kind, name, sigKind, sigName, k, file) ==
    LET sigs == {SigId(c, j) : j \in 1..k}
        pars == {ParamId(g) : g \in sigs}
    IN  [i \in {c} \cup sigs \cup pars |->
            IF i = c
            THEN [Node(kind, name) EXCEPT
                    !.signatures = SigIds(c, k),
                    !.sources = <<Source(file, c)>>]
            ELSE IF i \in sigs
            THEN [Node(sigKind, sigName) EXCEPT
                    !.parameters = <<ParamId(i)>>,
                    !.type = Intrinsic(TypeNames[i - 10 * c])]
            ELSE [Node("Parameter", <<"x">>) EXCEPT
                    !.type = Intrinsic(TypeNames[(i - 1) \div 10 - 10 * c])]]

\* A type parameter without a constraint: its optional type is absent.
NoType == [type |-> "none", name |-> "", typeArguments |-> <<>>]

TypeParamNode(name) == [Node("Type parameter", name) EXCEPT !.type = NoType]

Merge(f, g) ==
    [i \in DOMAIN f \cup DOMAIN g |-> IF i \in DOMAIN f THEN f[i] ELSE g[i]]

\* Every node of the tree gets its key as its id.
WithIds(t) == [i \in DOMAIN t |-> [t[i] EXCEPT !.id = <<i>>]]

\* The nodes of a type literal: with one call signature (x: number) =>
\* string, or with the properties p: number and q?: string.
LiteralNodes(lit, callable) ==
    LET sig == SigId(lit, 1)
        par == ParamId(sig)
        p == LitChildId(lit, 1)
        q == LitChildId(lit, 2)
    IN  IF callable
        THEN [i \in {lit, sig, par} |->
                CASE i = lit ->
                        [Node("Type literal", <<"__type">>) EXCEPT
                            !.signatures = <<sig>>,
                            !.sources = <<Source(ClassFile, lit)>>]
                  [] i = sig ->
                        [Node("Call signature", <<"__type">>) EXCEPT
                            !.parameters = <<par>>,
                            !.type = Intrinsic("string")]
                  [] OTHER ->
                        [Node("Parameter", <<"x">>) EXCEPT
                            !.type = Intrinsic("number")]]
        ELSE [i \in {lit, p, q} |->
                CASE i = lit ->
                        [Node("Type literal", <<"__type">>) EXCEPT
                            !.children = <<p, q>>,
                            !.sources = <<Source(ClassFile, lit)>>]
                  [] i = p ->
                        [Node("Property", <<"p">>) EXCEPT
                            !.type = Intrinsic("number"),
                            !.comment = Comment(<<Text(<<"The", "p">>)>>, <<>>),
                            !.sources = <<Source(ClassFile, p)>>]
                  [] OTHER ->
                        [Node("Property", <<"q">>) EXCEPT
                            !.type = Intrinsic("string"),
                            !.flags = Flags(FALSE, TRUE, FALSE, FALSE),
                            !.sources = <<Source(ClassFile, q)>>]]

\* Promise<t>, and Map, as the references to the standard library are.
PromiseOf(t) ==
    [Reference("Promise", FileTarget("lib.es5.d.ts", "Promise"), "typescript")
        EXCEPT !.typeArguments = <<t>>]

MapType ==
    Reference("Map", FileTarget("lib.es2015.collection.d.ts", "Map"), "typescript")

\* The type of the given sort that declares nothing.
SortedType(sort) ==
    CASE sort = "promise" -> PromiseOf(Intrinsic("number"))
      [] sort = "promiseUnion" ->
            AndOr("union", <<PromiseOf(Intrinsic("number")), Intrinsic("undefined")>>)
      [] sort = "promiseArray" -> Array(PromiseOf(Intrinsic("number")))
      [] sort = "promiseIntrinsic" -> Intrinsic("Promise")
      [] sort \in {"refExternal", "external"} -> MapType
      [] sort \in {"refInternal", "known"} ->
            Reference("B", IntTarget(BaseId), "pkg")
      [] sort = "refTP" ->
            [Reference("T", IntTarget(-1), "pkg") EXCEPT
                !.refersToTypeParameter = TRUE]
      [] sort = "refZero" -> Reference("Foo", IntTarget(0), NoPackage)
      [] sort = "refAbsent" -> Reference("Foo", NoTarget, NoPackage)
      [] sort \in {"refDangling", "dangling"} ->
            Reference("Gone", IntTarget(DanglingId), "pkg")
      [] OTHER -> Intrinsic("number")

\* The type of the given sort of a member m.
MemberType(m, sort) ==
    IF sort \in {"callable", "object"} THEN Reflection(LitId(m))
    ELSE SortedType(sort)

\* The entries of extendedTypes and implementedTypes of the given sort.
RelatedTypes(sort) ==
    CASE sort = "none" -> <<>>
      [] sort = "mixed" ->
            <<MapType, Reference("C", IntTarget(ClassId), "pkg"),
              Intrinsic("number"), Reference("Foo", NoTarget, NoPackage),
              Reference("B", IntTarget(BaseId), "pkg"),
              Array(Reference("B", IntTarget(BaseId), "pkg"))>>
      [] OTHER -> <<SortedType(sort)>>

\* The flags with the named one set.
FlagsOf(flag) ==
    Flags(flag = "abstract", flag = "optional", flag = "private", flag = "static")

\* The nodes of member m: the member and what its type declares.
MemberNodes(m, kind, name, sort) ==
    Merge([i \in {m} |->
            [Node(kind, name) EXCEPT
                !.type = MemberType(m, sort),
                !.sources = <<Source(ClassFile, m)>>]],
          IF sort \in {"callable", "object"}
          THEN LiteralNodes(LitId(m), sort = "callable")
          ELSE <<>>)

\* The nodes t of a callable, with the parameter "options" of the object
\* type { p: number; q?: string } put before or after the parameter x of
\* signature sig, or in its place, and with "@destructure <tag>" in the
\* signature's comment.
WithOptions(t, sig, opts, tag) ==
    LET o == OptionsId(sig)
        x == ParamId(sig)
        t1 == IF opts = "none" THEN t
              ELSE Merge(
                    [t EXCEPT ![sig].parameters =
                        CASE opts = "first" -> <<o, x>>
                          [] opts = "last" -> <<x, o>>
                          [] OTHER -> <<o>>],
                    Merge([i \in {o} |->
                            [Node("Parameter", <<"options">>) EXCEPT
                                !.type = Reflection(LitId(o))]],
                          LiteralNodes(LitId(o), FALSE)))
    IN  IF tag = "none" THEN t1
        ELSE [t1 EXCEPT ![sig].comment =
                Comment(<<>>, <<Tag("destructure", <<Text(<<tag>>)>>)>>)]

\* The tree t with the first source of the nodes of abs in a file of an
\* absolute path.
WithAbsolute(t, abs) ==
    [i \in DOMAIN t |->
        IF i \in abs THEN [t[i] EXCEPT !.sources = <<Source(ExtFile, i)>>]
        ELSE t[i]]

\* The comment "@deprecated Use h" or "@deprecated".
DeprecatedComment(dep) ==
    Comment(<<>>, <<Tag("deprecated",
                        IF dep = "text" THEN <<Text(<<"Use", "h">>)>> ELSE <<>>)>>)

\* The tree t with the deprecated tag on the given nodes.
WithDeprecated(t, dep, on) ==
    [i \in DOMAIN t |->
        IF dep # "none" /\ i \in on
        THEN [t[i] EXCEPT !.comment = DeprecatedComment(dep)]
        ELSE t[i]]

\* The nodes of the interface I with the method foop and the property
\* boop, both optional or neither.
InterfaceNodes(sh) ==
    LET flags == FlagsOf(IF sh.iface = "optional" THEN "optional" ELSE "none")
        name == IF sh.methName = "m" THEN <<"foop">> ELSE MethodName(sh)
        foop == CallableNodes(IMethodId, "Method", name, "Call signature",
                              name, 1, ClassFile)
        boop == MemberNodes(IPropId, "Property", <<"boop">>, "number")
    IN  Merge([i \in {InterfaceId} |->
                [Node("Interface", <<"I">>) EXCEPT
                    !.children = <<IMethodId, IPropId>>,
                    !.extendedTypes = RelatedTypes(sh.ext),
                    !.sources = <<Source(ClassFile, InterfaceId)>>]],
              Merge([foop EXCEPT ![IMethodId].flags = flags],
                    [boop EXCEPT ![IPropId].flags = flags]))

\* The tree t with the given nodes static.
WithStatic(t, static) ==
    [i \in DOMAIN t |->
        IF i \in static THEN [t[i] EXCEPT !.flags.isStatic = TRUE] ELSE t[i]]

\* The tree t with the id of the given nodes absent.
WithoutIds(t, noId) ==
    [i \in DOMAIN t |-> IF i \in noId THEN [t[i] EXCEPT !.id = <<>>] ELSE t[i]]

MethodComment(sh) ==
    IF sh.comment = "summary" THEN Comment(<<Text(<<"Some", "docs", "for", "m">>)>>, <<>>)
    ELSE EmptyComment

\* The tree of shape sh, as parse() returns it.
TreeOf(sh) ==
    LET present == Range(sh.order)
        top == [i \in {ProjectId, ClassId, NamespaceId, ExtId, BaseId} |->
                 CASE i = ProjectId ->
                        [Node("Project", <<>>) EXCEPT
                            !.children =
                                <<NamespaceId, ClassId, ExtId, BaseId>>
                                \o (IF sh.iface = "none" THEN <<>>
                                    ELSE <<InterfaceId>>)]
                   [] i = BaseId ->
                        [Node("Class", <<"B">>) EXCEPT
                            !.sources = <<Source(ClassFile, BaseId)>>]
                   [] i = ClassId ->
                        [Node("Class", <<"C">>) EXCEPT
                            !.children = sh.order,
                            !.extendedTypes = RelatedTypes(sh.ext),
                            !.implementedTypes = RelatedTypes(sh.impl),
                            !.typeParameter =
                                IF sh.clsTP = "typeParameter"
                                THEN <<ClassTypeParamId>> ELSE <<>>,
                            !.typeParameters =
                                IF sh.clsTP = "typeParameters"
                                THEN <<ClassTypeParamId>> ELSE <<>>,
                            !.sources = <<Source(ClassFile, 1)>>]
                   [] i = NamespaceId ->
                        [Node("Namespace", <<"ns">>) EXCEPT
                            !.children = <<FunctionId, VarId>>,
                            !.sources = <<Source(ClassFile, 6)>>]
                   [] i = ExtId ->
                        [Node("Variable", <<"ext">>) EXCEPT
                            !.type = Intrinsic("number"),
                            !.sources = <<Source(ExtFile, 8)>>]]
        clsTP == IF sh.clsTP = "none" THEN <<>>
                 ELSE [i \in {ClassTypeParamId} |-> TypeParamNode(<<"T">>)]
        fun0 == WithOptions(
                    CallableNodes(FunctionId, "Function", <<"g">>,
                                  "Call signature", <<"g">>, sh.nsigs, ClassFile),
                    SigId(FunctionId, 1), sh.opts, sh.tag)
        fun == IF sh.ret = "default" THEN fun0
               ELSE [fun0 EXCEPT ![SigId(FunctionId, 1)].type = SortedType(sh.ret)]
        ctor0 == CallableNodes(CtorId, "Constructor", <<"constructor">>,
                               "Constructor signature", <<"new C">>, sh.nsigs,
                               ClassFile)
        first == SigId(CtorId, 1)
        ctor1 == CASE sh.ctorTP = "typeParameter" ->
                        Merge([ctor0 EXCEPT ![first].typeParameter =
                                                <<OwnTypeParameterId(first)>>],
                              [i \in {OwnTypeParameterId(first)} |->
                                    TypeParamNode(<<"U">>)])
                   [] sh.ctorTP = "typeParameters" ->
                        Merge([ctor0 EXCEPT ![first].typeParameters =
                                                <<OwnTypeParametersId(first)>>],
                              [i \in {OwnTypeParametersId(first)} |->
                                    TypeParamNode(<<"V">>)])
                   [] OTHER -> ctor0
        ctor == IF CtorId \in present THEN ctor1 ELSE <<>>
        meth0 == CallableNodes(MethodId, "Method", MethodName(sh),
                               "Call signature", MethodName(sh), sh.nsigs,
                               ClassFile)
        meth == IF MethodId \in present
                THEN [meth0 EXCEPT
                        ![MethodId].flags = FlagsOf(sh.mflag),
                        ![SigId(MethodId, 1)].flags = FlagsOf(sh.sflag),
                        ![SigId(MethodId, 1)].inheritedFrom = sh.inherited,
                        ![SigId(MethodId, 1)].comment = MethodComment(sh)]
                ELSE <<>>
        iface == IF sh.iface = "none" THEN <<>> ELSE InterfaceNodes(sh)
        prop == IF PropId \in present
                THEN MemberNodes(PropId, "Property", <<sh.propName>>, sh.prop)
                ELSE <<>>
        var == MemberNodes(VarId, "Variable", <<"v">>, sh.var)
        accIds == {AccessorId}
                    \cup (IF sh.get THEN {GetSigId} ELSE {})
                    \cup (IF sh.set THEN {SetSigId, ParamId(SetSigId)} ELSE {})
        acc == IF AccessorId \in present
               THEN [i \in accIds |->
                      CASE i = AccessorId ->
                            [Node("Accessor", <<"a">>) EXCEPT
                                !.getSignature =
                                    IF sh.get THEN <<GetSigId>> ELSE <<>>,
                                !.setSignature =
                                    IF sh.set THEN <<SetSigId>> ELSE <<>>,
                                !.sources = <<Source(ClassFile, 5)>>]
                        [] i = GetSigId ->
                            [Node("Get signature", <<"a">>) EXCEPT
                                !.type = Intrinsic("number")]
                        [] i = SetSigId ->
                            [Node("Set signature", <<"a">>) EXCEPT
                                !.parameters = <<ParamId(SetSigId)>>]
                        [] OTHER ->
                            [Node("Parameter", <<"v">>) EXCEPT
                                !.type = Intrinsic("any")]]
               ELSE <<>>
        all == WithIds(Merge(top, Merge(clsTP, Merge(fun, Merge(ctor,
                    Merge(meth, Merge(prop, Merge(var, Merge(acc, iface)))))))))
    IN  WithoutIds(
            WithDeprecated(WithStatic(WithAbsolute(all, sh.abs), sh.static),
                           sh.dep, {SigId(FunctionId, 1), ClassId, PropId}),
            sh.noId)

(***************************************************************************)
(* populate_index and compute_path (typedoc.py lines 103-212).             *)
(***************************************************************************)
Segment(name, delim) == [n |-> name, d |-> delim]

\* analyzer_utils.is_explicitly_rooted: the path starts with "./" or "../".
is_explicitly_rooted(file) ==
    ~file.abs /\ file.dirs # <<>> /\ file.dirs[1] \in {".", ".."}

\* make_filepath_segments: "./" is put before a path that is not explicitly
\* rooted (an absolute path then splits into ".", "" and its directories);
\* every directory gets a "/" and the file name loses its extension.
make_filepath_segments(file) ==
    LET lead == IF is_explicitly_rooted(file) THEN <<>>
                ELSE IF file.abs THEN <<".", "">>
                ELSE <<".">>
        dirs == lead \o file.dirs
    IN  [i \in 1..Len(dirs) |-> Segment(<<dirs[i]>>, "/")]
            \o <<Segment(<<file.base>>, "")>>

\* Base.member_properties
member_properties(node) ==
    [is_abstract |-> node.flags.isAbstract,
     is_optional |-> node.flags.isOptional,
     is_static |-> node.flags.isStatic,
     is_private |-> node.flags.isPrivate]

\* _path_segments: a declaration contributes its name; the project, a
\* signature, a parameter and a type parameter contribute nothing.
path_segments(node) ==
    IF node.kind \in CallableKinds \cup MemberKinds \cup ClassOrInterfaceKinds
                        \cup OtherNodeKinds \cup {"Accessor", "Type literal"}
    THEN <<Segment(node.name, "")>>
    ELSE <<>>

\* A variant of compute_path that joins every child with ".".
compute_path_dot_only(node, parent_kind, parent_segments, filename) ==
    LET ps == IF /\ parent_kind = "Project"
                 /\ node.kind \notin {"Module", "External module"}
                 /\ parent_segments = <<>>
              THEN make_filepath_segments(filename)
              ELSE parent_segments
        segs == path_segments(node)
    IN  IF segs # <<>> /\ ps # <<>>
        THEN [ps EXCEPT ![Len(ps)].d = @ \o "."] \o segs
        ELSE IF segs # <<>> THEN segs ELSE ps

compute_path(node, parent_kind, parent_segments, filename) ==
    LET delimiter == IF ~node.flags.isStatic /\ parent_kind = "Class"
                     THEN "#" ELSE "."
        ps == IF /\ parent_kind = "Project"
                 /\ node.kind \notin {"Module", "External module"}
                 /\ parent_segments = <<>>
              THEN make_filepath_segments(filename)
              ELSE parent_segments
        segs == path_segments(node)
    IN  IF segs # <<>> /\ ps # <<>>
        THEN [ps EXCEPT ![Len(ps)].d = @ \o delimiter] \o segs
        ELSE IF segs # <<>> THEN segs ELSE ps

\* A variant of IndexChildren that descends into the first child alone.
IndexChildren_first_child(node) ==
    IF node.children = <<>> THEN <<>> ELSE <<node.children[1]>>

\* A variant of IndexChildren that descends into the children alone.
IndexChildren_structural(node) == node.children

\* "Burrow into everything that could contain more ID'd items": the node
\* lists _populate_index_inner descends into, in its order.
IndexChildren(node) ==
    node.children
        \o (IF node.kind = "Accessor"
            THEN node.getSignature \o node.setSignature ELSE <<>>)
        \o (IF node.kind \in CallableKinds \cup {"Type literal"}
            THEN node.signatures ELSE <<>>)
        \o (IF node.kind \in MemberKinds \cup {"Parameter"}
                /\ node.type.type = "reflection"
            THEN <<node.type.declaration>> ELSE <<>>)
        \o (IF node.kind \in SignatureKinds
            THEN node.parameters \o node.typeParameter \o node.typeParameters
            ELSE <<>>)
        \o (IF node.kind \in ClassOrInterfaceKinds
            THEN node.typeParameter \o node.typeParameters ELSE <<>>)

\* Converter.index = {} and self.index[node.id] = node
EmptyIndex == <<>>
Put(idx, id, n) == [k \in DOMAIN idx \cup {id} |-> IF k = id THEN n ELSE idx[k]]

\* _populate_index_inner on node n, then on the rest of its parent's
\* children; st is the tree and the index so far.
RECURSIVE populate_index_inner(_, _, _, _)
RECURSIVE PopulateEach(_, _, _, _, _)
populate_index_inner(st, n, parent, filename) ==
    LET node == st.ns[n]
        parent_kind == IF parent = NoParent THEN "" ELSE st.ns[parent].kind
        parent_segments == IF parent = NoParent THEN <<>> ELSE st.ns[parent].path
        fname == IF node.sources # <<>> THEN node.sources[1].fileName
                 ELSE filename
        node1 == IF node.sources # <<>>
                 THEN [node EXCEPT !.filename = fname] ELSE node
        node2 == [node1 EXCEPT
                    !.path = compute_path(node1, parent_kind, parent_segments,
                                          fname)]
        node3 == IF parent # NoParent /\ node.kind \in SignatureKinds
                 THEN [node2 EXCEPT !.parent_member_properties =
                                        member_properties(st.ns[parent])]
                 ELSE node2
        st1 == [ns |-> [st.ns EXCEPT ![n] = node3],
                idx |-> IF node.id # <<>> THEN Put(st.idx, node.id[1], n)
                        ELSE st.idx]
    IN  PopulateEach(st1, IndexChildren(node3), 1, n, fname)

PopulateEach(st, kids, i, parent, filename) ==
    IF i > Len(kids) THEN st
    ELSE PopulateEach(populate_index_inner(st, kids[i], parent, filename),
                      kids, i + 1, parent, filename)

populate_index(ns, root) ==
    populate_index_inner([ns |-> ns, idx |-> EmptyIndex], root, NoParent, NoFile)

(***************************************************************************)
(* Conversion to IR (typedoc.py lines 284-908).                            *)
(*                                                                         *)
(* A to_ir operator takes the conversion state st = [ns, lg, err] (the     *)
(* tree, the history of Signature.to_ir calls, whether an exception has    *)
(* been raised) and returns [ir, more, st]: the entity or None, the nodes  *)
(* to enqueue, and the state after the in-place mutations it made.         *)
(***************************************************************************)
None == [kind |-> "None"]

Out(ir, more, st) == [ir |-> ir, more |-> more, st |-> st]

Raise(st) == Out(None, <<>>, [st EXCEPT !.err = TRUE])

\* Reading tags[key] of the comment's defaultdict creates the key.
ReadTags(ns, n, keys) == [ns EXCEPT ![n].comment.tags = @ \cup keys]

\* tags[key]: the contents of the block tags of that name, in order.
TagList(comment, key) ==
    LET hits == SelectSeq(comment.blockTags, LAMBDA t : t.name = key)
    IN  [i \in 1..Len(hits) |-> hits[i].content]

\* Comment.get_tag_one: [] without the tag; one tag at most is allowed.
get_tag_one(comment, key) ==
    IF TagList(comment, key) = <<>> THEN <<>> ELSE TagList(comment, key)[1]

TagOneFails(comment, key) == Len(TagList(comment, key)) > 1

RECURSIVE Flatten(_)
Flatten(ss) == IF ss = <<>> THEN <<>> ELSE Head(ss) \o Flatten(Tail(ss))

\* What a rendered type is made of: strings and cross-references.  A
\* string token holds a type's text, a name token a declaration's name
\* with the text that follows it.
Plain(s) == [tok |-> "str", name |-> s]
Named(name, suffix) == [tok |-> "name", name |-> name, suffix |-> suffix]
TypeXRefInternal(name, path) == [tok |-> "internal", name |-> name, path |-> path]
TypeXRefExternal(name, package, file, qname) ==
    [tok |-> "external", name |-> name, package |-> package,
     sourceFileName |-> file, qualifiedName |-> qname]

\* A variant of riffle that puts the separator after every token list.
riffle_after_each(ts, other) ==
    Flatten([i \in 1..Len(ts) |-> ts[i] \o <<Plain(other)>>])

\* riffle: the token lists, with the separator between them.
RECURSIVE riffle(_, _)
riffle(ts, other) ==
    IF ts = <<>> THEN <<>>
    ELSE IF Len(ts) = 1 THEN ts[1]
    ELSE ts[1] \o <<Plain(other)>> \o riffle(Tail(ts), other)

IsVoid(t) == t.type = "intrinsic" /\ t.name = "void"

\* TypeBase._render_name with every _render_name_root, TypeLiteral.render
\* and Signature.render; idx is the converter's index.
RECURSIVE render_name(_, _, _)
RECURSIVE Signature_render(_, _, _)
RECURSIVE TypeLiteral_render(_, _, _)
render_name_root(ns, idx, t) ==
    CASE t.type = "intrinsic" -> <<Plain(t.name)>>
      [] t.type = "reference" ->
            IF t.refersToTypeParameter THEN <<Plain(t.name)>>
            ELSE IF t.target.kind = "int" /\ t.target.id > 0
            THEN <<TypeXRefInternal(t.name, ns[idx[t.target.id]].path)>>
            ELSE <<TypeXRefExternal(t.name, t.package, t.target.sourceFileName,
                                    t.target.qualifiedName)>>
      [] t.type \in {"union", "intersection"} ->
            riffle([i \in 1..Len(t.types) |-> render_name(ns, idx, t.types[i])],
                   IF t.type = "union" THEN "|" ELSE " & ")
      [] t.type = "array" ->
            render_name(ns, idx, t.elementType) \o <<Plain("[]")>>
      [] t.type = "reflection" ->
            IF ns[t.declaration].kind = "Type literal"
            THEN TypeLiteral_render(ns, idx, ns[t.declaration])
            ELSE IF ns[t.declaration].kind \in CallableKinds
            THEN (IF ns[t.declaration].kind = "Constructor"
                  THEN <<Plain("{new ")>> ELSE <<>>)
                 \o Signature_render(ns, idx, ns[ns[t.declaration].signatures[1]])
                 \o (IF ns[t.declaration].kind = "Constructor"
                     THEN <<Plain("}")>> ELSE <<>>)
            ELSE <<Plain("<TODO: reflection>")>>
      [] t.type = "typeOperator" ->
            <<Plain(t.operator \o " ")>> \o render_name(ns, idx, t.target)
      [] t.type = "literal" ->
            IF t.value = "None" THEN <<Plain("null")>>
            ELSE IF t.value = "int" THEN <<Plain("number")>>
            ELSE <<Plain("<TODO: Unknown type>")>>
      [] t.type = "tuple" ->
            <<Plain("[")>>
                \o riffle([i \in 1..Len(t.elements) |->
                                render_name(ns, idx, t.elements[i])], ", ")
                \o <<Plain("]")>>
      [] t.type = "indexedAccess" -> <<Plain("<TODO: not implemented>")>>
      [] t.type = "unknown" -> <<Plain(t.name)>>
      [] t.type = "predicate" ->
            <<Plain(t.name), Plain(" is ")>> \o render_name(ns, idx, t.targetType)

render_name(ns, idx, t) ==
    render_name_root(ns, idx, t)
        \o (IF t.typeArguments = <<>> THEN <<>>
            ELSE <<Plain("<")>>
                 \o riffle([i \in 1..Len(t.typeArguments) |->
                                render_name(ns, idx, t.typeArguments[i])], ", ")
                 \o <<Plain(">")>>)

\* Signature.render: "(" name ": " type, ... ") => " return type
Signature_render(ns, idx, sig) ==
    <<Plain("(")>>
        \o riffle([i \in 1..Len(sig.parameters) |->
                    <<Named(ns[sig.parameters[i]].name, ": ")>>
                        \o render_name(ns, idx, ns[sig.parameters[i]].type)],
                  ", ")
        \o <<Plain(") => ")>>
        \o (IF IsVoid(sig.type) THEN <<Plain("void")>>
            ELSE render_name(ns, idx, sig.type))

\* TypeLiteral.render: the first signature, or "{ " name ": " type "; " ... "}"
TypeLiteral_render(ns, idx, lit) ==
    IF lit.signatures # <<>>
    THEN Signature_render(ns, idx, ns[lit.signatures[1]])
    ELSE <<Plain("{ ")>>
            \o Flatten([i \in 1..Len(lit.children) |->
                    <<Named(ns[lit.children[i]].name,
                            IF ns[lit.children[i]].flags.isOptional
                            THEN "?: " ELSE ": ")>>
                        \o render_name(ns, idx, ns[lit.children[i]].type)
                        \o <<Plain("; ")>>])
            \o <<Plain("}")>>

\* The signatures whose "returns" tag rendering reads (Signature.render
\* calls return_type): those it renders that do not return void.
RECURSIVE RenderReads(_, _)
RECURSIVE SignatureRenderReads(_, _)
RenderReads(ns, t) ==
    UNION {RenderReads(ns, t.typeArguments[i]) : i \in 1..Len(t.typeArguments)}
    \cup
    CASE t.type \in {"union", "intersection"} ->
            UNION {RenderReads(ns, t.types[i]) : i \in 1..Len(t.types)}
      [] t.type = "array" -> RenderReads(ns, t.elementType)
      [] t.type = "typeOperator" -> RenderReads(ns, t.target)
      [] t.type = "predicate" -> RenderReads(ns, t.targetType)
      [] t.type = "tuple" ->
            UNION {RenderReads(ns, t.elements[i]) : i \in 1..Len(t.elements)}
      [] t.type = "reflection" ->
            LET d == ns[t.declaration]
            IN  IF d.kind \in CallableKinds \cup {"Type literal"}
                   /\ d.signatures # <<>>
                THEN SignatureRenderReads(ns, d.signatures[1])
                ELSE IF d.kind = "Type literal"
                THEN UNION {RenderReads(ns, ns[k].type) : k \in Range(d.children)}
                ELSE {}
      [] OTHER -> {}

SignatureRenderReads(ns, s) ==
    UNION {RenderReads(ns, ns[p].type) : p \in Range(ns[s].parameters)}
    \cup (IF IsVoid(ns[s].type) THEN {} ELSE {s} \cup RenderReads(ns, ns[s].type))

ReadReturns(ns, sigs) ==
    [n \in DOMAIN ns |->
        IF n \in sigs THEN [ns[n] EXCEPT !.comment.tags = @ \cup {"returns"}]
        ELSE ns[n]]

\* Rendering raises: a reference whose integer target is not in the index
\* (KeyError), a reference without type-parameter flag whose target is
\* neither a positive integer nor a Target with a package (the assertions),
\* a callable declaration without signatures, or a part that raises.
RECURSIVE RenderFails(_, _, _)
RECURSIVE SignatureRenderFails(_, _, _)
RenderFails(ns, idx, t) ==
    \/ \E i \in 1..Len(t.typeArguments) : RenderFails(ns, idx, t.typeArguments[i])
    \/ /\ t.type = "reference"
       /\ ~t.refersToTypeParameter
       /\ IF t.target.kind = "int" /\ t.target.id > 0
          THEN t.target.id \notin DOMAIN idx
          ELSE t.target.kind # "target" \/ t.package = NoPackage
    \/ /\ t.type \in {"union", "intersection"}
       /\ \E i \in 1..Len(t.types) : RenderFails(ns, idx, t.types[i])
    \/ t.type = "array" /\ RenderFails(ns, idx, t.elementType)
    \/ t.type = "typeOperator" /\ RenderFails(ns, idx, t.target)
    \/ t.type = "predicate" /\ RenderFails(ns, idx, t.targetType)
    \/ /\ t.type = "tuple"
       /\ \E i \in 1..Len(t.elements) : RenderFails(ns, idx, t.elements[i])
    \/ /\ t.type = "reflection"
       /\ LET d == ns[t.declaration]
          IN  \/ /\ d.kind \in CallableKinds \cup {"Type literal"}
                 /\ d.signatures # <<>>
                 /\ SignatureRenderFails(ns, idx, ns[d.signatures[1]])
              \/ d.kind \in CallableKinds /\ d.signatures = <<>>
              \/ /\ d.kind = "Type literal" /\ d.signatures = <<>>
                 /\ \E k \in Range(d.children) : RenderFails(ns, idx, ns[k].type)

SignatureRenderFails(ns, idx, sig) ==
    \/ \E p \in Range(sig.parameters) : RenderFails(ns, idx, ns[p].type)
    \/ ~IsVoid(sig.type) /\ RenderFails(ns, idx, sig.type)
    \/ ~IsVoid(sig.type) /\ Len(TagList(sig.comment, "returns")) > 1

\* TypeParameter.to_ir
TypeParameter_to_ir(ns, idx, node) ==
    [name |-> node.name,
     extends |-> IF node.type.type = "none" THEN <<>>
                 ELSE <<render_name(ns, idx, node.type)>>,
     description |-> node.comment.summary]

\* Param.to_ir
Param_to_ir(ns, idx, node) ==
    [name |-> node.name,
     description |-> node.comment.summary,
     is_variadic |-> node.flags.isRest,
     type |-> render_name(ns, idx, node.type)]

\* The name as the string of a path segment and back.
NameOfSegment(seg) == IF seg.d = "" THEN seg.n ELSE Append(seg.n, seg.d)

\* Signature._fix_type_suffix: a path that ends in "__type" loses that
\* segment, the new last segment loses a trailing ".", and the name becomes
\* the new last segment.
fix_type_suffix(node) ==
    IF Last(node.path) = Segment(<<"__type">>, "")
    THEN LET cut == SubSeq(node.path, 1, Len(node.path) - 1)
             last == [Last(cut) EXCEPT !.d = IF @ = "." THEN "" ELSE @]
             path == [cut EXCEPT ![Len(cut)] = last]
         IN  [node EXCEPT !.path = path, !.name = NameOfSegment(last)]
    ELSE node

FixTypeSuffixFails(node) ==
    \/ node.path = <<>>
    \/ Last(node.path) = Segment(<<"__type">>, "") /\ Len(node.path) = 1

\* Signature._destructure_param: one parameter per child of the
\* parameter's object type, named outer.inner, with the child's type.
destructure_param(ns, param) ==
    LET kids == ns[param.type.declaration].children
    IN  [i \in 1..Len(kids) |->
            [Node("Parameter", param.name \o <<".">> \o ns[kids[i]].name)
                EXCEPT !.type = ns[kids[i]].type]]

DestructureParamFails(ns, param) ==
    \/ param.type.type # "reflection"
    \/ \E k \in Range(ns[param.type.declaration].children) :
            ns[k].kind \notin MemberKinds

\* The words of the first "@destructure" block tag.
destructure_targets(node) ==
    LET hits == SelectSeq(node.comment.blockTags,
                          LAMBDA t : t.at /\ t.name = "destructure")
    IN  IF hits = <<>> THEN <<>> ELSE hits[1].content[1].text

\* Signature._destructure_params
destructure_params(ns, node) ==
    LET targets == destructure_targets(node)
        params == [i \in 1..Len(node.parameters) |-> ns[node.parameters[i]]]
    IN  IF targets = <<>> THEN params
        ELSE Flatten([i \in 1..Len(params) |->
                        IF \E j \in 1..Len(targets) : <<targets[j]>> = params[i].name
                        THEN destructure_param(ns, params[i])
                        ELSE <<>>])

DestructureParamsFails(ns, node) ==
    LET hits == SelectSeq(node.comment.blockTags,
                          LAMBDA t : t.at /\ t.name = "destructure")
        targets == destructure_targets(node)
    IN  \/ hits # <<>> /\ hits[1].content = <<>>
        \/ /\ hits # <<>> /\ hits[1].content # <<>> /\ targets # <<>>
           /\ \E i \in 1..Len(node.parameters) :
                /\ \E j \in 1..Len(targets) :
                        <<targets[j]>> = ns[node.parameters[i]].name
                /\ DestructureParamFails(ns, ns[node.parameters[i]])

\* Signature.return_type: nothing for void, else one Return.
return_type(ns, idx, node) ==
    IF node.type.type = "intrinsic" /\ node.type.name = "void" THEN <<>>
    ELSE <<[type |-> render_name(ns, idx, node.type),
            description |-> get_tag_one(node.comment, "returns")]>>

ReadsReturnsTag(node) ==
    /\ node.kind # "Constructor signature"
    /\ ~(node.type.type = "intrinsic" /\ node.type.name = "void")

\* The deprecation marker of an entity: a boolean or a description.
Boolean(b) == [bool |-> b]
Reason(items) == [items |-> items]

\* deprecated = self.comment.get_tag_one("deprecated") or False
deprecated(comment) ==
    IF get_tag_one(comment, "deprecated") # <<>>
    THEN Reason(get_tag_one(comment, "deprecated"))
    ELSE Boolean(FALSE)

\* TopLevelProperties._top_level_properties
top_level_properties(node) ==
    [name |-> node.name,
     path |-> node.path,
     filename |-> node.filename.base \o node.filename.ext,
     description |-> node.comment.summary,
     line |-> IF node.sources # <<>> THEN <<node.sources[1].line>> ELSE <<>>,
     deprecated |-> deprecated(node.comment),
     examples |-> TagList(node.comment, "example"),
     exported_from |-> make_filepath_segments(node.filename)]

\* A variant of is_async that goes by the name of the type alone.
is_async_by_name(type) ==
    type.type \in {"reference", "intrinsic"} /\ type.name = "Promise"

\* isinstance(self.type, ReferenceType) and self.type.name == "Promise"
is_async(type) == type.type = "reference" /\ type.name = "Promise"

\* The types Signature.to_ir renders: those of the parameters documented,
\* the constraints of the type parameters, and the return type.
TypeParamsOf(node) ==
    IF node.typeParameter # <<>> THEN node.typeParameter ELSE node.typeParameters

RenderedTypes(ns, node) ==
    LET ps == destructure_params(ns, node)
        tps == SelectSeq(TypeParamsOf(node), LAMBDA t : ns[t].type.type # "none")
    IN  [i \in 1..Len(ps) |-> ps[i].type]
            \o [i \in 1..Len(tps) |-> ns[tps[i]].type]
            \o (IF ReadsReturnsTag(node) THEN <<node.type>> ELSE <<>>)

\* A variant of Function that takes the member properties from the
\* signature's own flags.
Function_own_flags(ns, idx, node) ==
    [kind |-> "Function",
     params |-> LET ps == destructure_params(ns, node)
                IN  [i \in 1..Len(ps) |-> Param_to_ir(ns, idx, ps[i])],
     type_params |->
        LET tps == TypeParamsOf(node)
        IN  [i \in 1..Len(tps) |-> TypeParameter_to_ir(ns, idx, ns[tps[i]])],
     returns |-> IF node.kind # "Constructor signature"
                 THEN return_type(ns, idx, node)
                 ELSE <<>>,
     is_async |-> is_async(node.type),
     member |-> member_properties(node),
     top |-> top_level_properties(node)]

\* ir.Function(...) as Signature.to_ir builds it from the signature.
Function(ns, idx, node) ==
    [kind |-> "Function",
     params |-> LET ps == destructure_params(ns, node)
                IN  [i \in 1..Len(ps) |-> Param_to_ir(ns, idx, ps[i])],
     type_params |->
        LET tps == TypeParamsOf(node)
        IN  [i \in 1..Len(tps) |-> TypeParameter_to_ir(ns, idx, ns[tps[i]])],
     returns |-> IF node.kind # "Constructor signature"
                 THEN return_type(ns, idx, node)
                 ELSE <<>>,
     is_async |-> is_async(node.type),
     member |-> node.parent_member_properties,
     top |-> top_level_properties(node)]

\* The tree after Signature.to_ir has read the signature's tags and
\* those of the signatures it rendered.
AfterReads(ns, s, keys, types) ==
    ReadReturns(ReadTags(ns, s, keys),
                UNION {RenderReads(ns, types[i]) : i \in 1..Len(types)})

\* The symbol rename: a name that starts with "[" gets "[Symbol<U+2024>"
\* in place of the "[".
RenameSymbol(name) ==
    IF name # <<>> /\ name[1] = "[" THEN <<"[", "Symbol<U+2024>">> \o Tail(name)
    ELSE name

\* A variant of Signature_to_ir that converts inherited signatures too.
Signature_to_ir_keep_inherited(st, s) ==
    LET node == st.ns[s]
        node1 == fix_type_suffix([node EXCEPT !.name = RenameSymbol(@)])
        ns1 == [st.ns EXCEPT ![s] = node1]
        keys == (IF ReadsReturnsTag(node1) THEN {"returns"} ELSE {})
                    \cup {"deprecated", "example"}
    IN  Out(Function(ns1, st.idx, node1), node1.children,
            [st EXCEPT !.ns = AfterReads(ns1, s, keys, RenderedTypes(ns1, node1)),
                       !.lg = Append(@, [sig |-> s, out |-> TRUE])])

\* Signature.to_ir
Signature_to_ir(st, s) ==
    LET node == st.ns[s]
        node1 == fix_type_suffix([node EXCEPT !.name = RenameSymbol(@)])
        ns1 == [st.ns EXCEPT ![s] = node1]
        keys == (IF ReadsReturnsTag(node1) THEN {"returns"} ELSE {})
                    \cup {"deprecated", "example"}
    IN  IF st.err THEN Raise(st)
        ELSE IF node.inheritedFrom /\ node.comment = EmptyComment
        THEN Out(None, <<>>,
                 [st EXCEPT !.lg = Append(@, [sig |-> s, out |-> FALSE])])
        ELSE IF \/ FixTypeSuffixFails(node)
                \/ DestructureParamsFails(ns1, node1)
                \/ ReadsReturnsTag(node1) /\ TagOneFails(node1.comment, "returns")
                \/ node1.parent_member_properties = <<>>
                \/ TagOneFails(node1.comment, "deprecated")
        THEN Raise(st)
        ELSE IF \E i \in 1..Len(RenderedTypes(ns1, node1)) :
                    RenderFails(ns1, st.idx, RenderedTypes(ns1, node1)[i])
        THEN Raise(st)
        ELSE Out(Function(ns1, st.idx, node1), node1.children,
                 [st EXCEPT !.ns = AfterReads(ns1, s, keys, RenderedTypes(ns1, node1)),
                            !.lg = Append(@, [sig |-> s, out |-> TRUE])])

\* A variant of callable_to_ir that converts the last signature.
callable_to_ir_last(st, c) ==
    LET node == st.ns[c]
        sig == Last(node.signatures)
    IN  IF st.err \/ node.signatures = <<>> THEN Raise(st)
        ELSE Signature_to_ir(
                [st EXCEPT !.ns = [@ EXCEPT ![sig].sources = node.sources]],
                sig)

\* callable_to_ir: the first signature takes the callable's sources and is
\* converted; the other signatures are not looked at.
callable_to_ir(st, c) ==
    LET node == st.ns[c]
        first_sig == node.signatures[1]
    IN  IF st.err \/ node.signatures = <<>> THEN Raise(st)
        ELSE Signature_to_ir(
                [st EXCEPT !.ns = [@ EXCEPT ![first_sig].sources = node.sources]],
                first_sig)

\* ir.Attribute(...) of an accessor or a member, of the given type.
Attribute(ns, idx, node, type) ==
    [kind |-> "Attribute",
     type |-> render_name(ns, idx, type),
     member |-> member_properties(node),
     top |-> top_level_properties(node)]

\* The Attribute of node n with the given type, returned with the node's
\* children; the type is rendered and the node's tags are read.
AttributeOut(st, n, type) ==
    IF RenderFails(st.ns, st.idx, type) \/ TagOneFails(st.ns[n].comment, "deprecated")
    THEN Raise(st)
    ELSE Out(Attribute(st.ns, st.idx, st.ns[n], type), st.ns[n].children,
             [st EXCEPT !.ns = AfterReads(@, n, {"deprecated", "example"}, <<type>>)])

\* A variant of Accessor_to_ir that prefers the setter's parameter type.
Accessor_to_ir_setter_first(st, a) ==
    LET node == st.ns[a]
    IN  IF st.err THEN Raise(st)
        ELSE IF node.setSignature # <<>>
        THEN IF st.ns[node.setSignature[1]].parameters = <<>> THEN Raise(st)
             ELSE AttributeOut(st, a,
                    st.ns[st.ns[node.setSignature[1]].parameters[1]].type)
        ELSE IF node.getSignature # <<>>
        THEN AttributeOut(st, a, st.ns[node.getSignature[1]].type)
        ELSE Raise(st)

\* Accessor.to_ir: the getter's return type, else the type of the setter's
\* first parameter; the assertion fails without both.
Accessor_to_ir(st, a) ==
    LET node == st.ns[a]
    IN  IF st.err THEN Raise(st)
        ELSE IF node.getSignature # <<>>
        THEN AttributeOut(st, a, st.ns[node.getSignature[1]].type)
        ELSE IF \/ node.setSignature = <<>>
                \/ st.ns[node.setSignature[1]].parameters = <<>>
        THEN Raise(st)
        ELSE AttributeOut(st, a,
                st.ns[st.ns[node.setSignature[1]].parameters[1]].type)

\* A variant of Member_to_ir that makes an Attribute of every member.
Member_to_ir_attribute(st, m) ==
    IF st.err THEN Raise(st) ELSE AttributeOut(st, m, st.ns[m].type)

\* Member.to_ir: a member whose type is an anonymous declaration with call
\* signatures goes the callable way, any other becomes an Attribute.
Member_to_ir(st, m) ==
    LET node == st.ns[m]
    IN  IF st.err THEN Raise(st)
        ELSE IF /\ node.type.type = "reflection"
                /\ st.ns[node.type.declaration].kind = "Type literal"
                /\ st.ns[node.type.declaration].signatures # <<>>
        THEN callable_to_ir(st, node.type.declaration)
        ELSE AttributeOut(st, m, node.type)

\* child.to_ir(converter) for a child of a class or an interface.
ClassChild_to_ir(st, c) ==
    CASE st.ns[c].kind = "Accessor" -> Accessor_to_ir(st, c)
      [] st.ns[c].kind \in CallableKinds -> callable_to_ir(st, c)
      [] st.ns[c].kind \in MemberKinds -> Member_to_ir(st, c)

\* A variant of related_types that lists the path "UNIMPLEMENTED" for an
\* entry that is no reference with an integer target.
related_types_unimplemented(st, idx, types) ==
    [i \in 1..Len(types) |->
        IF types[i].type = "reference" /\ types[i].target.kind = "int"
        THEN st.ns[idx[types[i].target.id]].path
        ELSE <<Segment(<<"UNIMPLEMENTED">>, "")>>]

\* ClassOrInterface._related_types: the indexed paths of the entries that
\* are references with an integer target.
related_types(st, idx, types) ==
    LET refs == SelectSeq(types,
                    LAMBDA t : t.type = "reference" /\ t.target.kind = "int")
    IN  [i \in 1..Len(refs) |-> st.ns[idx[refs[i].target.id]].path]

RelatedTypesFails(idx, types) ==
    \E i \in 1..Len(types) :
        /\ types[i].type = "reference"
        /\ types[i].target.kind = "int"
        /\ types[i].target.id \notin DOMAIN idx

\* A variant of CopyTypeParameters that keeps the type parameters a
\* constructor signature has of its own.
CopyTypeParametersIfNone(ns, cls, child) ==
    LET sig == ns[child].signatures[1]
    IN  IF ns[sig].typeParameter # <<>> \/ ns[sig].typeParameters # <<>> THEN ns
        ELSE [ns EXCEPT ![sig].typeParameter =
                IF ns[cls].typeParameter # <<>> THEN ns[cls].typeParameter
                ELSE ns[cls].typeParameters]

\* "Type parameter cannot appear on constructor declaration so copy it down
\* from the class": the assignment to child.signatures[0].typeParameter.
CopyTypeParameters(ns, cls, child) ==
    [ns EXCEPT ![ns[child].signatures[1]].typeParameter =
        IF ns[cls].typeParameter # <<>> THEN ns[cls].typeParameter
        ELSE ns[cls].typeParameters]

\* A variant of constructor_and_members that lists the constructor among
\* the members as well.
RECURSIVE constructor_and_members_all(_, _, _, _)
constructor_and_members_all(acc, cls, kids, i) ==
    IF i > Len(kids) \/ acc.st.err THEN acc
    ELSE LET child == kids[i]
             r == ClassChild_to_ir(acc.st, child)
         IN  constructor_and_members_all(
                [constructor |-> IF acc.st.ns[child].kind = "Constructor"
                                 THEN r.ir ELSE acc.constructor,
                 members |-> IF r.ir # None THEN Append(acc.members, r.ir)
                             ELSE acc.members,
                 st |-> r.st],
                cls, kids, i + 1)

\* ClassOrInterface._constructor_and_members, from child i on; acc holds
\* the constructor and the members found so far and the conversion state.
RECURSIVE constructor_and_members(_, _, _, _)
constructor_and_members(acc, cls, kids, i) ==
    IF i > Len(kids) \/ acc.st.err THEN acc
    ELSE LET child == kids[i]
         IN  IF acc.st.ns[child].kind = "Constructor"
             THEN IF acc.st.ns[child].signatures = <<>>
                  THEN [acc EXCEPT !.st.err = TRUE]
                  ELSE LET st1 == [acc.st EXCEPT
                                     !.ns = CopyTypeParameters(@, cls, child)]
                           r == ClassChild_to_ir(st1, child)
                       IN  constructor_and_members(
                              [constructor |-> r.ir, members |-> acc.members,
                               st |-> r.st],
                              cls, kids, i + 1)
             ELSE LET r == ClassChild_to_ir(acc.st, child)
                  IN  constructor_and_members(
                         [constructor |-> acc.constructor,
                          members |-> IF r.ir # None
                                      THEN Append(acc.members, r.ir)
                                      ELSE acc.members,
                          st |-> r.st],
                         cls, kids, i + 1)

\* ir.Class(...) as Class.to_ir builds it, cm being what
\* _constructor_and_members returned.
Class(cm, idx, c) ==
    LET node == cm.st.ns[c]
        tps == IF node.typeParameter # <<>> THEN node.typeParameter
               ELSE node.typeParameters
    IN  IF \/ cm.st.err
           \/ RelatedTypesFails(idx, node.extendedTypes)
           \/ RelatedTypesFails(idx, node.implementedTypes)
           \/ TagOneFails(node.comment, "deprecated")
        THEN Raise(cm.st)
        ELSE Out([kind |-> "Class",
                  constructor |-> cm.constructor,
                  members |-> cm.members,
                  supers |-> related_types(cm.st, idx, node.extendedTypes),
                  is_abstract |-> node.flags.isAbstract,
                  interfaces |-> related_types(cm.st, idx, node.implementedTypes),
                  type_params |->
                    [i \in 1..Len(tps) |->
                        TypeParameter_to_ir(cm.st.ns, idx, cm.st.ns[tps[i]])],
                  top |-> top_level_properties(node)],
                 node.children,
                 [cm.st EXCEPT !.ns = ReadTags(@, c, {"deprecated", "example"})])

\* Class.to_ir
Class_to_ir(st, idx, c) ==
    Class(constructor_and_members(
              [constructor |-> None, members |-> <<>>, st |-> st],
              c, st.ns[c].children, 1),
          idx, c)

\* ir.Interface(...) as Interface.to_ir builds it, cm being what
\* _constructor_and_members returned.
Interface(cm, idx, c) ==
    LET node == cm.st.ns[c]
    IN  IF \/ cm.st.err
           \/ RelatedTypesFails(idx, node.extendedTypes)
           \/ TagOneFails(node.comment, "deprecated")
        THEN Raise(cm.st)
        ELSE Out([kind |-> "Interface",
                  members |-> cm.members,
                  supers |-> related_types(cm.st, idx, node.extendedTypes),
                  type_params |->
                    [i \in 1..Len(node.typeParameter) |->
                        TypeParameter_to_ir(cm.st.ns, idx,
                                            cm.st.ns[node.typeParameter[i]])],
                  top |-> top_level_properties(node)],
                 node.children,
                 [cm.st EXCEPT !.ns = ReadTags(@, c, {"deprecated", "example"})])

\* Interface.to_ir
Interface_to_ir(st, idx, c) ==
    Interface(constructor_and_members(
                  [constructor |-> None, members |-> <<>>, st |-> st],
                  c, st.ns[c].children, 1),
              idx, c)

\* TopLevelProperties.to_ir: no entity, the children are enqueued.
TopLevelProperties_to_ir(st, n) == Out(None, st.ns[n].children, st)

(***************************************************************************)
(* parse and fix_exc_errors (typedoc.py lines 90-95 and 1117-1191).        *)
(***************************************************************************)
\* A JSON value: a string, an object (from its keys to their values) or an
\* array.
JStr(str) == [j |-> "str", s |-> str, f |-> <<>>, a |-> <<>>]
JObj(fields) == [j |-> "obj", s |-> "", f |-> fields, a |-> <<>>]
JArr(items) == [j |-> "arr", s |-> "", f |-> <<>>, a |-> items]

\* One key of an object with its value.
Pair(key, value) == [k \in {key} |-> value]

\* An element of the location of a validation error: a key or a position
\* (from 0).
Key(str) == [el |-> "key", s |-> str, i |-> 0]
Idx(n) == [el |-> "idx", s |-> "", i |-> n]

\* How a call of parse() ends.
NoOutcome == [out |-> "none", kind |-> ""]
Returned == [out |-> "returned", kind |-> ""]
Raised(kind) == [out |-> "raised", kind |-> kind]

\* No ValidationError, and the one with the given errors.
NoException == <<>>
ValidationError(errors) == <<errors>>

\* fix_exc_errors has not run: s is empty and no location was re-validated.
NoFix == [s |-> <<>>, seen |-> <<>>]

\* render_name is not called.
NoRendering == [out |-> "none", list |-> <<>>]

TypeIdle ==
    /\ ty = Intrinsic("")
    /\ rendering = NoRendering

\* parse() is not called.
ParseIdle ==
    /\ doc = JObj(<<>>)
    /\ exc = NoException
    /\ outcome = NoOutcome
    /\ fix = NoFix

\* The documents: { "children": [ <a function with one signature> ] },
\* with the function's kindString right, unknown or missing, with and
\* without the names of the function and of the signature, with the
\* signature's kindString right or unknown, and with its return type
\* { "type": "intrinsic", "name": "void" }, of an unknown "type", without
\* its name, or missing; and { "children": "oops" }.
DocShapes ==
    [children : {"list"}, kind : {"Function", "Bogus", "absent"},
     name : BOOLEAN, sigKind : {"Call signature", "Bogus"}, sigName : BOOLEAN,
     type : {"void", "bogus", "nameless", "absent"}]
    \cup
    [children : {"string"}, kind : {"Function"}, name : {TRUE},
     sigKind : {"Call signature"}, sigName : {TRUE}, type : {"void"}]

Optional(present, key, value) == IF present THEN Pair(key, value) ELSE <<>>

DocOf(sh) ==
    LET type == JObj(Merge(
                    Pair("type", JStr(IF sh.type = "bogus" THEN "bogus"
                                      ELSE "intrinsic")),
                    Optional(sh.type # "nameless", "name", JStr("void"))))
        sig == JObj(Merge(Pair("kindString", JStr(sh.sigKind)),
                    Merge(Optional(sh.sigName, "name", JStr("f")),
                          Optional(sh.type # "absent", "type", type))))
        child == JObj(Merge(Optional(sh.kind # "absent", "kindString",
                                     JStr(sh.kind)),
                      Merge(Optional(sh.name, "name", JStr("f")),
                            Pair("signatures", JArr(<<sig>>)))))
    IN  JObj(Pair("children",
                  IF sh.children = "string" THEN JStr("oops")
                  ELSE JArr(<<child>>)))

HasKey(o, key) == o.j = "obj" /\ key \in DOMAIN o.f

\* The classes that declare the discriminator as a Literal, by its values.
discriminators == <<"kindString", "type">>

KindClasses ==
    [k \in {"Project", "Accessor", "Class", "Interface", "Type literal",
            "External module", "Module", "Type parameter", "Parameter"}
            \cup CallableKinds \cup MemberKinds \cup OtherNodeKinds
            \cup SignatureKinds |->
        CASE k \in CallableKinds -> "Callable"
          [] k \in MemberKinds -> "Member"
          [] k \in OtherNodeKinds -> "OtherNode"
          [] k \in SignatureKinds -> "Signature"
          [] k \in {"External module", "Module"} -> "ExternalModule"
          [] k = "Type literal" -> "TypeLiteral"
          [] k = "Type parameter" -> "TypeParameter"
          [] k = "Parameter" -> "Param"
          [] OTHER -> k]

TypeClasses ==
    [t \in {"union", "intersection", "array", "typeOperator", "intrinsic",
            "reference", "reflection", "literal", "tuple", "indexedAccess",
            "unknown", "predicate"} |->
        CASE t \in {"union", "intersection"} -> "AndOrType"
          [] t = "array" -> "ArrayType"
          [] t = "typeOperator" -> "OperatorType"
          [] t = "intrinsic" -> "IntrinsicType"
          [] t = "reference" -> "ReferenceType"
          [] t = "reflection" -> "ReflectionType"
          [] t = "literal" -> "LiteralType"
          [] t = "tuple" -> "TupleType"
          [] t = "indexedAccess" -> "OtherType"
          [] t = "unknown" -> "UnknownType"
          [] OTHER -> "PredicateType"]

classesByDiscriminator == [kindString |-> KindClasses, type |-> TypeClasses]

\* The kindString values of the variants of Node.
NodeKinds ==
    DOMAIN KindClasses
        \ ({"Project", "Type parameter", "Parameter"} \cup SignatureKinds)

\* The locations of the errors of validation, in the order of the fields.
\* Where a discriminator chooses the variant of a union, the errors in the
\* variant have the variant's name in their location if named.
Required(o, key, loc) ==
    IF HasKey(o, key) THEN <<>> ELSE <<loc \o <<Key(key)>>>>

Into(loc, variant, named) == IF named THEN loc \o <<Key(variant)>> ELSE loc

\* TypeD, of which the documents have IntrinsicType (name: str) alone.
TypeD_errors(o, loc, named) ==
    IF ~HasKey(o, "type") \/ o.f["type"].s \notin DOMAIN TypeClasses
    THEN <<loc>>
    ELSE CASE TypeClasses[o.f["type"].s] = "IntrinsicType" ->
                Required(o, "name", Into(loc, "IntrinsicType", named))

\* Signature: kindString, name and type are required.
Signature_errors(o, loc, named) ==
    (IF HasKey(o, "kindString") /\ o.f["kindString"].s \in SignatureKinds
     THEN <<>> ELSE <<loc \o <<Key("kindString")>>>>)
    \o Required(o, "name", loc)
    \o (IF HasKey(o, "type")
        THEN TypeD_errors(o.f["type"], loc \o <<Key("type")>>, named)
        ELSE <<loc \o <<Key("type")>>>>)

\* Callable: name is required; signatures: list[Signature].
Callable_errors(o, loc, named) ==
    Required(o, "name", loc)
    \o (IF ~HasKey(o, "signatures") THEN <<>>
        ELSE IF o.f["signatures"].j # "arr"
        THEN <<loc \o <<Key("signatures")>>>>
        ELSE Flatten([i \in 1..Len(o.f["signatures"].a) |->
                Signature_errors(o.f["signatures"].a[i],
                                 loc \o <<Key("signatures"), Idx(i - 1)>>,
                                 named)]))

\* Node, of whose variants the documents have Callable alone.
Node_errors(o, loc, named) ==
    IF ~HasKey(o, "kindString") \/ o.f["kindString"].s \notin NodeKinds
    THEN <<loc>>
    ELSE CASE KindClasses[o.f["kindString"].s] = "Callable" ->
                Callable_errors(o, Into(loc, "Callable", named), named)

\* Project: children: Sequence[Node].
Project_errors(o, named) ==
    IF ~HasKey(o, "children") THEN <<>>
    ELSE IF o.f["children"].j # "arr" THEN <<<<Key("children")>>>>
    ELSE Flatten([i \in 1..Len(o.f["children"].a) |->
            Node_errors(o.f["children"].a[i], <<Key("children"), Idx(i - 1)>>,
                        named)])

\* c.parse_obj(o) for the class named c.
parse_obj(c, o, named) ==
    CASE c = "Project" -> Project_errors(o, named)
      [] c = "Callable" -> Callable_errors(o, <<>>, named)
      [] c = "Signature" -> Signature_errors(o, <<>>, named)
      [] c = "IntrinsicType" -> Required(o, "name", <<>>)

\* o = o[a]: the value, or KeyError, IndexError or TypeError.
Subscript(o, a) ==
    CASE o.j = "obj" ->
            IF a.el = "key" /\ a.s \in DOMAIN o.f
            THEN [raised |-> "", o |-> o.f[a.s]]
            ELSE [raised |-> "KeyError", o |-> o]
      [] o.j = "arr" ->
            IF a.el = "key" THEN [raised |-> "TypeError", o |-> o]
            ELSE IF a.i < Len(o.a) THEN [raised |-> "", o |-> o.a[a.i + 1]]
            ELSE [raised |-> "IndexError", o |-> o]
      [] o.j = "str" /\ a.el = "key" -> [raised |-> "TypeError", o |-> o]

\* "follow path to get problematic subobject"
RECURSIVE Follow(_, _, _)
Follow(o, loc, i) ==
    IF i > Len(loc) THEN [raised |-> "", o |-> o]
    ELSE LET r == Subscript(o, loc[i])
         IN  IF r.raised # "" THEN r ELSE Follow(r.o, loc, i + 1)

\* "disc not in o": a key of an object, an element of an array.
Contains(o, disc) ==
    CASE o.j = "obj" -> disc \in DOMAIN o.f
      [] o.j = "arr" -> \E i \in 1..Len(o.a) : o.a[i].j = "str" /\ o.a[i].s = disc

\* "Work out the discriminator and use it to look up the appropriate
\* class", from discriminator i on: the class found, if any; looking an
\* object or an array up in the dict raises TypeError (unhashable).
RECURSIVE Discriminate(_, _)
Discriminate(o, i) ==
    IF i > Len(discriminators) THEN [raised |-> "", found |-> FALSE, c |-> ""]
    ELSE LET disc == discriminators[i]
         IN  IF ~Contains(o, disc) THEN Discriminate(o, i + 1)
             ELSE IF o.f[disc].j # "str"
             THEN [raised |-> "TypeError", found |-> FALSE, c |-> ""]
             ELSE IF o.f[disc].s \notin DOMAIN classesByDiscriminator[disc]
             THEN Discriminate(o, i + 1)
             ELSE [raised |-> "", found |-> TRUE,
                   c |-> classesByDiscriminator[disc][o.f[disc].s]]

\* sorted(set(e["loc"][:-1] ...), key=lambda loc: (-len(loc), loc)): the
\* deepest first (the documents have no two of the same length).
Front(loc) == SubSeq(loc, 1, Len(loc) - 1)

RECURSIVE Sorted(_)
Sorted(locs) ==
    IF locs = {} THEN <<>>
    ELSE LET m == CHOOSE x \in locs : \A y \in locs : Len(y) <= Len(x)
         IN  <<m>> \o Sorted(locs \ {m})

\* loc[:i]
Prefix(loc, i) == SubSeq(loc, 1, IF i < Len(loc) THEN i ELSE Len(loc))

\* The result of the loop with loc put before the locations it
\* re-validated.
Seen(loc, r) == [r EXCEPT !.seen = <<loc>> \o @]

\* The loop of fix_exc_errors from s[k] on: the error raised, if any, the
\* errors collected, and the locations given to c.parse_obj.
RECURSIVE FixLoop(_, _, _, _, _, _)
FixLoop(o, s, k, handled, errors, named) ==
    IF k > Len(s) THEN [raised |-> "", errors |-> errors, seen |-> <<>>]
    ELSE IF s[k] \in handled THEN FixLoop(o, s, k + 1, handled, errors, named)
    ELSE LET loc == s[k]
             handled1 == handled \cup {Prefix(loc, i) : i \in 0..(Len(s) - 1)}
             sub == Follow(o, loc, 1)
             d == Discriminate(sub.o, 1)
         IN  IF sub.raised # ""
             THEN [raised |-> sub.raised, errors |-> errors, seen |-> <<>>]
             ELSE IF d.raised # ""
             THEN [raised |-> d.raised, errors |-> errors, seen |-> <<>>]
             ELSE IF ~d.found
             THEN FixLoop(o, s, k + 1, handled1, errors, named)
             ELSE LET errs == parse_obj(d.c, sub.o, named)
                  IN  Seen(loc,
                        FixLoop(o, s, k + 1, handled1,
                                errors \o [i \in 1..Len(errs) |-> loc \o errs[i]],
                                named))

\* fix_exc_errors(json, exc): the error it raises, if any, and the errors
\* of exc afterwards ("if errors: exc._error_cache = errors").
fix_exc_errors(o, errors, named) ==
    LET r == FixLoop(o, Sorted({Front(errors[i]) : i \in 1..Len(errors)}), 1,
                     {}, <<>>, named)
    IN  [raised |-> r.raised,
         errors |-> IF r.raised = "" /\ r.errors # <<>> THEN r.errors ELSE errors,
         s |-> Sorted({Front(errors[i]) : i \in 1..Len(errors)}),
         seen |-> r.seen]

\* The converter's variables while the suffix index is exercised alone.
ConvIdle ==
    /\ json = <<>>
    /\ nodes = <<>>
    /\ index = EmptyIndex
    /\ todo = <<>>
    /\ done = <<>>
    /\ log = <<>>
    /\ pops = <<>>
    /\ pc = "idle"

InitTree ==
    /\ tree = EmptyTree
    /\ added = {}
    /\ query = <<>>
    /\ result = NoResult
    /\ ConvIdle
    /\ ParseIdle
    /\ TypeIdle

\* s.add(segments, value) for a path not stored yet.
Add(p) ==
    /\ Cardinality(added) < MaxAdds
    /\ p \notin StoredPaths
    /\ tree' = add(tree, p, ObjectAt(p))
    /\ added' = added \cup {<<p, ObjectAt(p)>>}
    /\ query' = <<>>
    /\ result' = NoResult
    /\ UNCHANGED <<convVars, parseVars, typeVars>>

\* s.get(segments): the outcome is the value returned or the error raised.
Get(s) ==
    /\ query' = s
    /\ result' = get(tree, s)
    /\ UNCHANGED <<tree, added>>
    /\ UNCHANGED <<convVars, parseVars, typeVars>>

NextTree ==
    \/ \E p \in Paths : Add(p)
    \/ \E s \in Queries : Get(s)

SpecTree == InitTree /\ [][NextTree]_vars

(***************************************************************************)
(* Analyzer.__init__: populate_index, then the convert_all_nodes loop.     *)
(***************************************************************************)
TreeIdle ==
    /\ tree = EmptyTree
    /\ added = {}
    /\ query = <<>>
    /\ result = NoResult

Init ==
    /\ \E sh \in Shapes : json = TreeOf(sh)
    /\ nodes = json
    /\ index = EmptyIndex
    /\ todo = <<>>
    /\ done = <<>>
    /\ log = <<>>
    /\ pops = <<>>
    /\ pc = "parsed"
    /\ TreeIdle
    /\ ParseIdle
    /\ TypeIdle

\* Converter(base_dir).populate_index(json)
PopulateIndex ==
    /\ pc = "parsed"
    /\ LET st == populate_index(nodes, ProjectId)
       IN  nodes' = st.ns /\ index' = st.idx
    /\ pc' = "indexed"
    /\ UNCHANGED <<json, todo, done, log, pops>>
    /\ UNCHANGED <<treeVars, parseVars, typeVars>>

\* convert_all_nodes: todo = list(root.children); done = []
BeginConvert ==
    /\ pc = "indexed"
    /\ todo' = nodes[ProjectId].children
    /\ done' = <<>>
    /\ pc' = "converting"
    /\ UNCHANGED <<json, nodes, index, log, pops>>
    /\ UNCHANGED <<treeVars, parseVars, typeVars>>

Popped == Last(todo)
Rest == SubSeq(todo, 1, Len(todo) - 1)

IsAbsolute(node) == node.sources # <<>> /\ node.sources[1].fileName.abs

\* A variant of Turn that enqueues the new nodes in reverse.
TurnReversed(r) ==
    /\ nodes' = r.st.ns
    /\ log' = r.st.lg
    /\ IF r.st.err
       THEN pc' = "failed" /\ UNCHANGED <<todo, done>>
       ELSE /\ pc' = pc
            /\ done' = IF r.ir # None THEN Append(done, r.ir) ELSE done
            /\ todo' = SubSeq(todo, 1, Len(todo) - 1) \o Rev(r.more)
    /\ pops' = Append(pops, Popped)
    /\ UNCHANGED <<json, index>>
    /\ UNCHANGED <<treeVars, parseVars, typeVars>>

\* One turn of the loop for a node to convert: r is what node.to_ir returned.
Turn(r) ==
    /\ nodes' = r.st.ns
    /\ log' = r.st.lg
    /\ IF r.st.err
       THEN pc' = "failed" /\ UNCHANGED <<todo, done>>
       ELSE /\ pc' = pc
            /\ done' = IF r.ir # None THEN Append(done, r.ir) ELSE done
            /\ todo' = Rest \o r.more
    /\ pops' = Append(pops, Popped)
    /\ UNCHANGED <<json, index>>
    /\ UNCHANGED <<treeVars, parseVars, typeVars>>

Converting(kinds) ==
    /\ pc = "converting"
    /\ todo # <<>>
    /\ ~IsAbsolute(nodes[Popped])
    /\ nodes[Popped].kind \in kinds

St0 == [ns |-> nodes, lg |-> log, err |-> FALSE, idx |-> index]

\* The popped node's first source file is an absolute path: continue.
SkipAbsolute ==
    /\ pc = "converting"
    /\ todo # <<>>
    /\ IsAbsolute(nodes[Popped])
    /\ todo' = Rest
    /\ pops' = Append(pops, Popped)
    /\ UNCHANGED <<json, nodes, index, done, log, pc>>
    /\ UNCHANGED <<treeVars, parseVars, typeVars>>

ConvertClass ==
    /\ Converting({"Class"})
    /\ Turn(Class_to_ir(St0, index, Popped))

ConvertInterface ==
    /\ Converting({"Interface"})
    /\ Turn(Interface_to_ir(St0, index, Popped))

ConvertCallable ==
    /\ Converting(CallableKinds \cup {"Type literal"})
    /\ Turn(callable_to_ir(St0, Popped))

ConvertMember ==
    /\ Converting(MemberKinds)
    /\ Turn(Member_to_ir(St0, Popped))

ConvertAccessor ==
    /\ Converting({"Accessor"})
    /\ Turn(Accessor_to_ir(St0, Popped))

\* A module, namespace, enumeration, type alias or reference.
ConvertOther ==
    /\ Converting(OtherNodeKinds \cup {"Module", "External module"})
    /\ Turn(TopLevelProperties_to_ir(St0, Popped))

\* The worklist is empty: convert_all_nodes returns done.
Return ==
    /\ pc = "converting"
    /\ todo = <<>>
    /\ pc' = "done"
    /\ UNCHANGED <<json, nodes, index, todo, done, log, pops>>
    /\ UNCHANGED <<treeVars, parseVars, typeVars>>

\* node.to_ir(self), by the class of the node.
to_ir(st, n) ==
    CASE st.ns[n].kind = "Class" -> Class_to_ir(st, st.idx, n)
      [] st.ns[n].kind = "Interface" -> Interface_to_ir(st, st.idx, n)
      [] st.ns[n].kind \in CallableKinds \cup {"Type literal"} -> callable_to_ir(st, n)
      [] st.ns[n].kind \in MemberKinds -> Member_to_ir(st, n)
      [] st.ns[n].kind = "Accessor" -> Accessor_to_ir(st, n)
      [] OTHER -> TopLevelProperties_to_ir(st, n)

\* convert_all_nodes as one call: the loop from the worklist td on, dn being
\* the output so far; Loop is the end of one turn, r being what to_ir
\* returned.
RECURSIVE convert_all_nodes(_, _, _)
Loop(r, td, dn) ==
    IF r.st.err THEN [err |-> TRUE, done |-> dn]
    ELSE convert_all_nodes(r.st, SubSeq(td, 1, Len(td) - 1) \o r.more,
                           IF r.ir # None THEN Append(dn, r.ir) ELSE dn)

convert_all_nodes(st, td, dn) ==
    IF td = <<>> THEN [err |-> FALSE, done |-> dn]
    ELSE IF IsAbsolute(st.ns[Last(td)])
    THEN convert_all_nodes(st, SubSeq(td, 1, Len(td) - 1), dn)
    ELSE Loop(to_ir(st, Last(td)), td, dn)

Next ==
    \/ PopulateIndex
    \/ BeginConvert
    \/ SkipAbsolute
    \/ ConvertClass
    \/ ConvertInterface
    \/ ConvertCallable
    \/ ConvertMember
    \/ ConvertAccessor
    \/ ConvertOther
    \/ Return

Spec == Init /\ [][Next]_vars

\* What every step of Analyzer.__init__ does to the position and to the
\* history of the loop: populate_index and the seeding of the worklist
\* advance the position, the return ends the loop, and a turn of the loop
\* pops one node and goes on or raises.
Advance ==
    \/ pc = "parsed" /\ pc' = "indexed" /\ pops' = pops
    \/ pc = "indexed" /\ pc' = "converting" /\ pops' = pops
    \/ pc = "converting" /\ todo = <<>> /\ pc' = "done" /\ pops' = pops
    \/ /\ pc = "converting" /\ todo # <<>>
       /\ pc' \in {"converting", "failed"}
       /\ pops' = Append(pops, Popped)

\* The code is sequential and keeps running until it returns or raises:
\* the next step is taken.
SpecLive == Spec /\ WF_<<pc, pops>>(Advance)

(***************************************************************************)
(* parse(json): Project.parse_obj, and on a ValidationError                *)
(* fix_exc_errors and raise.                                               *)
(***************************************************************************)
InitParse ==
    /\ \E sh \in DocShapes : doc = DocOf(sh)
    /\ exc = NoException
    /\ outcome = NoOutcome
    /\ fix = NoFix
    /\ TreeIdle
    /\ ConvIdle
    /\ TypeIdle

\* return Project.parse_obj(json)
ParseReturns ==
    /\ outcome = NoOutcome
    /\ Project_errors(doc, TRUE) = <<>>
    /\ outcome' = Returned
    /\ UNCHANGED <<doc, exc, fix>>
    /\ UNCHANGED <<treeVars, convVars, typeVars>>

\* except ValidationError as exc: fix_exc_errors(json, exc); raise
ParseRaises(named) ==
    /\ outcome = NoOutcome
    /\ Project_errors(doc, named) # <<>>
    /\ LET r == fix_exc_errors(doc, Project_errors(doc, named), named)
       IN  /\ exc' = ValidationError(r.errors)
           /\ outcome' = Raised(IF r.raised # "" THEN r.raised
                                ELSE "ValidationError")
           /\ fix' = [s |-> r.s, seen |-> r.seen]
    /\ UNCHANGED doc
    /\ UNCHANGED <<treeVars, convVars, typeVars>>

NextParse ==
    \/ ParseReturns
    \/ \E named \in BOOLEAN : ParseRaises(named)

SpecParse == InitParse /\ [][NextParse]_vars

(***************************************************************************)
(* TypeBase.render_name, called on one type expression with the index of   *)
(* a populated tree.                                                       *)
(***************************************************************************)
MaxTypeArgs == 2

\* The tree whose index the rendering uses: the property f of the class
\* has an object literal type.
RenderShape == [DefaultShape EXCEPT !.prop = "object"]

\* One type expression of every variant, without type arguments.
TypeRoots ==
    {Intrinsic("number"),
     Reference("B", IntTarget(BaseId), "pkg"),
     MapType,
     SortedType("refTP"),
     Reflection(LitId(PropId)),
     AndOr("union", <<Intrinsic("number"), Intrinsic("string")>>),
     AndOr("intersection", <<Intrinsic("number"), MapType>>),
     AndOr("union", <<>>),
     Array(Intrinsic("number")),
     Operator("keyof", MapType),
     Tuple(<<Intrinsic("number"), Intrinsic("string")>>),
     Tuple(<<>>),
     IndexedAccess,
     Unknown("x"),
     Predicate("x", Intrinsic("string"))}
    \cup {Literal(v) : v \in LiteralValues}

\* The type arguments: a name, a tuple (whose rendering has a ", " of its
\* own), a type with a type argument, and a reference that is not indexed.
ArgTypes ==
    {Intrinsic("string"),
     Tuple(<<Intrinsic("number"), Intrinsic("string")>>),
     PromiseOf(Intrinsic("number")),
     SortedType("refDangling")}

TypeExprs ==
    {[r EXCEPT !.typeArguments = a] :
        r \in TypeRoots, a \in UNION {[1..n -> ArgTypes] : n \in 0..MaxTypeArgs}}

InitRender ==
    /\ json = TreeOf(RenderShape)
    /\ LET st == populate_index(json, ProjectId)
       IN  nodes = st.ns /\ index = st.idx
    /\ todo = <<>>
    /\ done = <<>>
    /\ log = <<>>
    /\ pops = <<>>
    /\ pc = "indexed"
    /\ ty \in TypeExprs
    /\ rendering = NoRendering
    /\ TreeIdle
    /\ ParseIdle

\* return list(self._render_name(converter))
RenderReturns ==
    /\ rendering = NoRendering
    /\ ~RenderFails(nodes, index, ty)
    /\ rendering' = [out |-> "returned", list |-> render_name(nodes, index, ty)]
    /\ UNCHANGED ty
    /\ UNCHANGED <<treeVars, convVars, parseVars>>

\* a part of the type raises while the generators are consumed
RenderRaises ==
    /\ rendering = NoRendering
    /\ RenderFails(nodes, index, ty)
    /\ rendering' = [out |-> "raised", list |-> <<>>]
    /\ UNCHANGED ty
    /\ UNCHANGED <<treeVars, convVars, parseVars>>

NextRender ==
    \/ RenderReturns
    \/ RenderRaises

SpecRender == InitRender /\ [][NextRender]_vars

Asked == result.kind # "none"

C3_NotFoundIffNoMatch ==
    Asked => (result = SuffixNotFound <=> EndingWith(query) = {})

\* C3 witness: SuffixNotFound for a query of two or more segments whose
\* last segment ends a stored path.
C3_Witness ==
    /\ result = SuffixNotFound
    /\ Len(query) >= 2
    /\ \E p \in StoredPaths : Last(p) = Last(query)

\* C4: when exactly one stored path ends with s, get(s) returns that
\* path's value, even if a shorter suffix of s is shared by several paths.
C4_UniqueMatch ==
    (Asked /\ Cardinality(EndingWith(query)) = 1)
        => \A p \in EndingWith(query) : result = Found(ValueOf(p))

\* C4 witness: a value came back for a query only one stored path ends
\* with, while the query's last segment alone ends two stored paths.
C4_Witness ==
    /\ result.kind = "value"
    /\ Cardinality(EndingWith(query)) = 1
    /\ Len(query) >= 2
    /\ Cardinality(EndingWith(<<Last(query)>>)) >= 2

(***************************************************************************)
(* Properties of the conversion.                                           *)
(***************************************************************************)
Children == json[ClassId].children

\* A reference of the input that names no declaration of the tree: its
\* target is absent, zero, or an id that no node has.
Unresolvable(t) ==
    /\ t.type = "reference"
    /\ ~t.refersToTypeParameter
    /\ \/ t.target.kind = "none"
       \/ t.target.kind = "int" /\ t.target.id \notin DOMAIN json \ {ProjectId}

HasUnresolvable ==
    \E n \in DOMAIN json :
        \/ Unresolvable(json[n].type)
        \/ \E t \in Range(json[n].extendedTypes) \cup Range(json[n].implementedTypes) :
                Unresolvable(t)
Has(c) == c \in Range(Children)
Members == SelectSeq(Children, LAMBDA c : c # CtorId)

\* Where the entities with the path of node c stand in the output list.
Positions(c) == {i \in 1..Len(done) : done[i].top.path = nodes[c].path}

ClassConverted == Positions(ClassId) # {}
ClassEntity == done[CHOOSE i \in Positions(ClassId) : TRUE]

\* The first signature of callable c, as parsed.
FirstSig(c) == json[json[c].signatures[1]]

\* Child c is a callable whose first signature is inherited and has no
\* comment of its own.
Dropped(c) ==
    /\ json[c].kind \in CallableKinds
    /\ FirstSig(c).inheritedFrom
    /\ FirstSig(c).comment = EmptyComment

Kept == SelectSeq(Members, LAMBDA c : ~Dropped(c))

Before(a, b) == \A i \in Positions(a), j \in Positions(b) : i < j

\* The first source file of node n is outside the analyzed tree.
External(n) ==
    json[n].sources # <<>> /\ json[n].sources[1].fileName.abs

\* The class's children are all declared in the analyzed files.
ChildrenAnalyzed == \A c \in Range(Children) : ~External(c)

\* C5 as stated: a class with a constructor and N ordinary members yields
\* one Function for the constructor and N further entities, and the
\* constructor is recorded before every ordinary member whatever position
\* it has among the children.
C5_Original ==
    (pc = "done" /\ Has(CtorId)) =>
        /\ Cardinality(Positions(CtorId)) = 1
        /\ Cardinality(UNION {Positions(c) : c \in Range(Members)}) = Len(Members)
        /\ \A c \in Range(Members) : Before(CtorId, c)

\* C5 amended: a class with a constructor and N ordinary members, all
\* declared in the analyzed files and none of them an inherited signature
\* without a comment, yields one Function for
\* the constructor and N further entities; the Class entity holds the
\* constructor in its constructor field, apart from the members, whatever
\* position it has among the children; in the output list the children's
\* entities stand in reverse structural order, so that the constructor's
\* Function precedes the entity of exactly those members that come before
\* the constructor in the input.
C5_ConstructorApartOutputReversed ==
    (pc = "done" /\ Has(CtorId) /\ ChildrenAnalyzed) =>
        /\ Cardinality(Positions(CtorId)) = 1
        /\ \A i \in Positions(CtorId) : done[i].kind = "Function"
        /\ \A c \in Range(Kept) : Cardinality(Positions(c)) = 1
        /\ \A c \in Range(Members) \ Range(Kept) : Positions(c) = {}
        /\ ClassEntity.constructor.kind = "Function"
        /\ ClassEntity.constructor.top.path = nodes[CtorId].path
        /\ \A m \in Range(ClassEntity.members) : m.top.path # nodes[CtorId].path
        /\ \A a, b \in 1..Len(Children) :
                (a < b /\ ~Dropped(Children[a]) /\ ~Dropped(Children[b]))
                    => Before(Children[b], Children[a])

\* C5 witness: the conversion of a class whose constructor is its first
\* child, before two members, has returned.
C5_Witness ==
    /\ pc = "done"
    /\ Len(Children) >= 3
    /\ Children[1] = CtorId
    /\ Len(Kept) >= 2

\* What a member looks like in the members list: its kind and its path.
Look(e) == <<e.kind, e.top.path>>

\* Member m has the reflection of a type literal with call signatures as
\* its type.
ReflectsCallable(m) ==
    /\ json[m].kind \in MemberKinds
    /\ json[m].type.type = "reflection"
    /\ json[json[m].type.declaration].kind = "Type literal"
    /\ json[json[m].type.declaration].signatures # <<>>

ExpectedLook(c) ==
    <<IF json[c].kind \in CallableKinds \/ ReflectsCallable(c)
      THEN "Function" ELSE "Attribute",
      nodes[c].path>>

AccessorAttributes ==
    {done[i] : i \in Positions(AccessorId)}
        \cup (IF ClassConverted
              THEN {m \in Range(ClassEntity.members) :
                        m.top.path = nodes[AccessorId].path}
              ELSE {})

HasGet == json[AccessorId].getSignature # <<>>
HasSet == json[AccessorId].setSignature # <<>>

\* C7: an accessor converts to an Attribute of the getter's return type
\* whenever it has a get signature, and of the type of the set signature's
\* parameter when it has a setter only; with neither the conversion fails
\* and yields no Attribute.
C7_AccessorType ==
    Has(AccessorId) =>
        /\ \A e \in AccessorAttributes :
                /\ e.kind = "Attribute"
                /\ HasGet => e.type = render_name(nodes, index, json[GetSigId].type)
                /\ (~HasGet /\ HasSet)
                        => e.type = render_name(nodes, index,
                                                json[ParamId(SetSigId)].type)
        /\ (~HasGet /\ ~HasSet) =>
                /\ AccessorAttributes = {}
                /\ ~ClassConverted
                /\ pc # "done"
        /\ (HasGet \/ HasSet) =>
                /\ ClassConverted => Cardinality(AccessorAttributes) = 1
                /\ (pc = "done" /\ ~External(AccessorId))
                        => Positions(AccessorId) # {}
                /\ pc = "failed" => HasUnresolvable

\* C7 witness: an accessor with a setter only was converted, by the class
\* and from the worklist.
C7_Witness ==
    /\ pc = "done"
    /\ Has(AccessorId)
    /\ ~HasGet /\ HasSet
    /\ Positions(AccessorId) # {}

\* The log entries of the calls of Signature.to_ir on signature s.
Calls(s) == {i \in 1..Len(log) : log[i].sig = s}

MethodEntities ==
    {done[i] : i \in Positions(MethodId)}
        \cup (IF ClassConverted
              THEN {m \in Range(ClassEntity.members) :
                        m.top.path = nodes[MethodId].path}
              ELSE {})

IsNode(i) == json[i].kind \notin SignatureKinds \cup {"Parameter", "Type parameter"}

\* C8: an inherited signature without an authored comment produces no
\* entity and enqueues nothing: it is neither in the output nor in its
\* class's members; with a comment it is converted to a Function, and a
\* signature that is not inherited is converted with or without a comment.
C8_InheritedUncommentedDropped ==
    (Has(MethodId) /\ ~External(MethodId)) =>
        /\ Dropped(MethodId) =>
                /\ MethodEntities = {}
                /\ \A i \in Calls(SigId(MethodId, 1)) : ~log[i].out
        /\ ~Dropped(MethodId) =>
                /\ \A i \in Calls(SigId(MethodId, 1)) : log[i].out
                /\ \A e \in MethodEntities : e.kind = "Function"
                /\ ClassConverted => MethodEntities # {}
                /\ pc = "done" => Positions(MethodId) # {}
        /\ \A i \in Range(todo) : IsNode(i)
        /\ pc = "done" => Cardinality(Calls(SigId(MethodId, 1))) = 2

\* C8 witness: the conversion has returned for a class with an inherited
\* method without a comment, converted twice to nothing.
C8_Witness ==
    /\ pc = "done"
    /\ Has(MethodId)
    /\ Dropped(MethodId)
    /\ Cardinality(Calls(SigId(MethodId, 1))) = 2

\* C8, second witness state: the inherited method has a comment and is in
\* the output.
C8_WitnessCommented ==
    /\ pc = "done"
    /\ Has(MethodId)
    /\ FirstSig(MethodId).inheritedFrom
    /\ ~Dropped(MethodId)
    /\ Positions(MethodId) # {}

Callables ==
    {c \in DOMAIN json : /\ json[c].kind \in CallableKinds \cup {"Type literal"}
                         /\ json[c].signatures # <<>>}

\* Every Function made of callable c, in the output and inside the class.
FunctionsOf(c) ==
    {done[i] : i \in Positions(c)}
        \cup (IF ClassConverted
              THEN {m \in Range(ClassEntity.members) : m.top.path = nodes[c].path}
                    \cup (IF ClassEntity.constructor # None
                             /\ ClassEntity.constructor.top.path = nodes[c].path
                          THEN {ClassEntity.constructor} ELSE {})
              ELSE {})

\* The parameters documented for signature s.
ParamsOf(s) ==
    LET ps == destructure_params(json, json[s])
    IN  [i \in 1..Len(ps) |-> Param_to_ir(nodes, index, ps[i])]

\* C9: a conversion of a callable with k >= 1 signatures produces at most
\* one Function, built from the first signature only; the signatures 2..k
\* produce no entity and are never on the worklist.
C9_FirstSignatureOnly ==
    /\ \A i \in 1..Len(log) :
            \E c \in Callables : log[i].sig = json[c].signatures[1]
    /\ \A i \in Range(todo) : json[i].kind \notin SignatureKinds
    /\ \A c \in Callables :
        /\ Cardinality(Positions(c)) <= 1
        /\ \A e \in FunctionsOf(c) :
                /\ e.kind = "Function"
                /\ e.params = ParamsOf(json[c].signatures[1])
                /\ \A j \in 2..Len(json[c].signatures) :
                    e.params # ParamsOf(json[c].signatures[j])

\* C9 witness: the conversion has returned for a tree whose function and
\* method have two signatures, and both are in the output.
C9_Witness ==
    /\ pc = "done"
    /\ Len(json[FunctionId].signatures) >= 2
    /\ Positions(FunctionId) # {}
    /\ Has(MethodId) /\ Positions(MethodId) # {}

CtorSig == json[CtorId].signatures[1]
OwnTypeParams(sig) ==
    IF json[sig].typeParameter # <<>> THEN json[sig].typeParameter
    ELSE json[sig].typeParameters
ClassTypeParams ==
    IF json[ClassId].typeParameter # <<>> THEN json[ClassId].typeParameter
    ELSE json[ClassId].typeParameters

IrTypeParams(ids) ==
    [i \in 1..Len(ids) |-> TypeParameter_to_ir(nodes, index, json[ids[i]])]

\* C10 as stated: the constructor's first signature receives the class's
\* type parameters only when it has none of its own; type parameters
\* already present on it are left unchanged, and the constructor
\* Function's type_params reflect the result.
C10_Original ==
    (ClassConverted /\ Has(CtorId)) =>
        IF OwnTypeParams(CtorSig) # <<>>
        THEN /\ nodes[CtorSig].typeParameter = json[CtorSig].typeParameter
             /\ nodes[CtorSig].typeParameters = json[CtorSig].typeParameters
             /\ ClassEntity.constructor.type_params =
                    IrTypeParams(OwnTypeParams(CtorSig))
        ELSE /\ nodes[CtorSig].typeParameter = ClassTypeParams
             /\ ClassEntity.constructor.type_params = IrTypeParams(ClassTypeParams)

\* C10 amended: when a class is converted, the typeParameter field of its
\* constructor's first signature is set to the class's type parameters
\* whether or not the signature had type parameters of its own, and its
\* typeParameters field is left unchanged; the constructor Function's
\* type_params are the class's type parameters when the class has any, and
\* otherwise those of the signature's typeParameters field.
C10_ClassTypeParamsOverwrite ==
    (ClassConverted /\ Has(CtorId)) =>
        /\ nodes[CtorSig].typeParameter = ClassTypeParams
        /\ nodes[CtorSig].typeParameters = json[CtorSig].typeParameters
        /\ ClassEntity.constructor.type_params =
                IrTypeParams(IF ClassTypeParams # <<>> THEN ClassTypeParams
                             ELSE json[CtorSig].typeParameters)
        /\ \A i \in Positions(CtorId) :
                done[i].type_params = ClassEntity.constructor.type_params

\* C10 witness: a class with a type parameter was converted whose
\* constructor signature had a type parameter of its own.
C10_Witness ==
    /\ ClassConverted
    /\ Has(CtorId)
    /\ ClassTypeParams # <<>>
    /\ json[CtorSig].typeParameter # <<>>
    /\ Positions(CtorId) # {}

MemberNodeIds == {m \in DOMAIN json : json[m].kind \in MemberKinds} \cap {PropId, VarId}

\* C11: a property or variable whose type is the reflection of a type
\* literal with at least one call signature is converted to a Function,
\* built from that signature, and never to an Attribute; a member whose
\* reflected declaration has no call signature, or whose type is no
\* reflection, is converted to an Attribute.
C11_ReflectedCallableIsFunction ==
    \A m \in MemberNodeIds :
        /\ \A e \in FunctionsOf(m) :
                IF ReflectsCallable(m)
                THEN /\ e.kind = "Function"
                     /\ e.top.name = json[m].name
                     /\ e.params =
                            <<Param_to_ir(nodes, index,
                                json[ParamId(SigId(json[m].type.declaration, 1))])>>
                ELSE /\ e.kind = "Attribute"
                     /\ e.type = render_name(nodes, index, json[m].type)
        /\ (pc = "done" /\ ~IsAbsolute(json[m])) => Positions(m) # {}

\* C11 witness: the conversion has returned for a tree whose property has
\* a type literal with a call signature as its type and whose variable
\* has a type literal without one.
C11_Witness ==
    /\ pc = "done"
    /\ Has(PropId)
    /\ ReflectsCallable(PropId)
    /\ json[VarId].type.type = "reflection"
    /\ ~ReflectsCallable(VarId)
    /\ \E i \in Positions(PropId) : done[i].kind = "Function"
    /\ \E i \in Positions(VarId) : done[i].kind = "Attribute"

GSig == SigId(FunctionId, 1)

\* Parameter p of signature s is named by the signature's destructure tag.
TagNames(s, p) ==
    \E j \in 1..Len(destructure_targets(json[s])) :
        <<destructure_targets(json[s])[j]>> = json[p].name

TaggedParams(s) == SelectSeq(json[s].parameters, LAMBDA p : TagNames(s, p))
UntaggedParams(s) == SelectSeq(json[s].parameters, LAMBDA p : ~TagNames(s, p))

\* The properties of the object type of parameter p.
PropertiesOf(p) == json[json[p].type.declaration].children

\* The synthetic parameters the properties of p stand for, with and
\* without the properties' descriptions.
Synthetic(p, described) ==
    [j \in 1..Len(PropertiesOf(p)) |->
        [name |-> json[p].name \o <<".">> \o json[PropertiesOf(p)[j]].name,
         description |-> IF described THEN json[PropertiesOf(p)[j]].comment.summary
                         ELSE <<>>,
         is_variadic |-> FALSE,
         type |-> render_name(nodes, index, json[PropertiesOf(p)[j]].type)]]

SyntheticOf(s, described) ==
    Flatten([i \in 1..Len(TaggedParams(s)) |->
                Synthetic(TaggedParams(s)[i], described)])

IsSynthetic(q) == Len(q.name) = 3 /\ q.name[2] = "."

\* C12: a parameter named by the signature's destructure tag is replaced,
\* in the Function's parameter list, by one synthetic parameter per
\* property of its object type, in property order, named
\* <parameter name>.<property name>, each with the property's own type
\* and, when the property has one, the property's description.
C12_DestructuredWithDescriptions ==
    \A e \in FunctionsOf(FunctionId) :
        /\ SelectSeq(e.params, IsSynthetic) = SyntheticOf(GSig, TRUE)
        /\ \A p \in Range(TaggedParams(GSig)) :
                \A i \in 1..Len(e.params) : e.params[i].name # json[p].name

\* What the code does of C12: the synthetic parameters stand in the place
\* of the tagged parameter, in property order, with the properties' names
\* and types, and without any description.
DestructuredWithoutDescriptions ==
    \A e \in FunctionsOf(FunctionId) :
        /\ SelectSeq(e.params, IsSynthetic) = SyntheticOf(GSig, FALSE)
        /\ \A p \in Range(TaggedParams(GSig)) :
                \A i \in 1..Len(e.params) : e.params[i].name # json[p].name

\* C13: every parameter of a signature that the destructure tag does not
\* name is in the Function's parameter list, once, with its name and type
\* and in its place among the other parameters, whether or not the
\* signature's comment has a destructure tag that names other parameters.
C13_UntaggedParametersKept ==
    \A e \in FunctionsOf(FunctionId) :
        SelectSeq(e.params, LAMBDA q : ~IsSynthetic(q))
            = [i \in 1..Len(UntaggedParams(GSig)) |->
                    Param_to_ir(nodes, index, json[UntaggedParams(GSig)[i]])]

\* What the code does of C13: the parameters the tag does not name are
\* kept when the comment has no destructure tag, and all dropped when it
\* has one.
UntaggedParametersDroppedWithTag ==
    \A e \in FunctionsOf(FunctionId) :
        SelectSeq(e.params, LAMBDA q : ~IsSynthetic(q))
            = IF destructure_targets(json[GSig]) = <<>>
              THEN [i \in 1..Len(json[GSig].parameters) |->
                        Param_to_ir(nodes, index, json[json[GSig].parameters[i]])]
              ELSE <<>>

\* C14: a Function made of a signature is asynchronous if and only if the
\* signature's declared return type is a reference type named "Promise";
\* a union or an array that holds Promise, or an intrinsic type named
\* Promise, gives a Function that is not asynchronous.
C14_AsyncIffPromiseReference ==
    \A c \in Callables :
        \A e \in FunctionsOf(c) :
            e.kind = "Function" =>
                /\ e.is_async <=> /\ FirstSig(c).type.type = "reference"
                                  /\ FirstSig(c).type.name = "Promise"
                /\ FirstSig(c).type.type \in {"union", "array", "intrinsic"}
                        => ~e.is_async

\* C14 witness: the conversion has returned and g, whose first signature
\* returns the reference Promise<number>, has become an asynchronous
\* Function.
C14_Witness ==
    /\ pc = "done"
    /\ FirstSig(FunctionId).type = PromiseOf(Intrinsic("number"))
    /\ \E i \in Positions(FunctionId) : done[i].is_async

\* The intrinsic type named Promise, and the union and the array that hold
\* Promise<number>, have given Functions that are not asynchronous.
C14_WitnessOthers ==
    /\ pc = "done"
    /\ FirstSig(FunctionId).type \in
            {Intrinsic("Promise"), Array(PromiseOf(Intrinsic("number"))),
             SortedType("promiseUnion")}
    /\ \E i \in Positions(FunctionId) : ~done[i].is_async

\* A reference whose target is zero or absent, and one whose target is an
\* id that the index has no entry for.
ZeroOrAbsent(t) ==
    /\ t.type = "reference"
    /\ ~t.refersToTypeParameter
    /\ t.target.kind = "none" \/ (t.target.kind = "int" /\ t.target.id = 0)

Dangling(t) ==
    /\ t.type = "reference"
    /\ ~t.refersToTypeParameter
    /\ t.target.kind = "int" /\ t.target.id > 0
    /\ t.target.id \notin DOMAIN json

\* The types of the input tree: those of the nodes, and what the classes
\* extend and implement.
TypesOfTree ==
    UNION {{json[n].type} \cup Range(json[n].extendedTypes)
                \cup Range(json[n].implementedTypes) : n \in DOMAIN json}

HasZeroOrAbsent == \E t \in TypesOfTree : ZeroOrAbsent(t)
HasDangling == \E t \in TypesOfTree : Dangling(t)

\* The declarations of the analyzed files that the worklist reaches.
Documented == {NamespaceId, FunctionId, VarId, ClassId, BaseId} \cup Range(Children)

\* C15: rendering a reference type whose target is zero or absent yields
\* the type's name as plain text, with no cross-reference, and does not
\* raise: the property f and the function g of such a type are converted,
\* with the name alone as their rendered type.
C15_ZeroOrAbsentRendersPlain ==
    /\ (Has(PropId) /\ ZeroOrAbsent(json[PropId].type)) =>
            /\ \A e \in FunctionsOf(PropId) :
                    e.type = <<Plain(json[PropId].type.name)>>
            /\ pc = "failed" => HasDangling
            /\ pc = "done" => Positions(PropId) # {}
    /\ ZeroOrAbsent(FirstSig(FunctionId).type) =>
            /\ \A e \in FunctionsOf(FunctionId) :
                    e.returns[1].type = <<Plain(FirstSig(FunctionId).type.name)>>
            /\ pc # "failed"
            /\ pc = "done" => Positions(FunctionId) # {}

\* What the code does of C15: rendering the reference raises, so that
\* nothing is made of the declaration, nor of the class that holds it, and
\* convert_all_nodes never returns.
ZeroOrAbsentRaises ==
    /\ (Has(PropId) /\ ZeroOrAbsent(json[PropId].type)) =>
            /\ FunctionsOf(PropId) = {}
            /\ ~ClassConverted
            /\ pc # "done"
    /\ ZeroOrAbsent(FirstSig(FunctionId).type) =>
            /\ FunctionsOf(FunctionId) = {}
            /\ pc # "done"

\* The conversion has failed on a tree whose only unresolved reference is
\* the property's, of target zero or absent.
ZeroOrAbsentHasRaised ==
    /\ pc = "failed"
    /\ ZeroOrAbsent(json[PropId].type)
    /\ ~HasDangling

\* C16: a cross-reference whose identifier has no entry in the index is
\* not fatal: the type is rendered as plain text, the class that extends
\* or implements it is converted, every other declaration of the tree is
\* converted, and convert_all_nodes returns without an error.
C16_DanglingIsNotFatal ==
    /\ (Has(PropId) /\ Dangling(json[PropId].type)) =>
            \A e \in FunctionsOf(PropId) :
                e.type = <<Plain(json[PropId].type.name)>>
    /\ (HasDangling /\ ~HasZeroOrAbsent) =>
            /\ pc # "failed"
            /\ pc = "done" => \A n \in Documented : Positions(n) # {}

\* What the code does of C16: looking the identifier up in the index
\* raises, in rendering and in listing the superclasses and interfaces,
\* and convert_all_nodes never returns.
DanglingRaises ==
    HasDangling =>
        /\ pc # "done"
        /\ Dangling(FirstSig(FunctionId).type) => FunctionsOf(FunctionId) = {}
        /\ (\E t \in TypesOfTree \ {FirstSig(FunctionId).type} : Dangling(t))
                => ~ClassConverted

\* The conversion has failed on a class whose superclass alone is missing
\* from the index.
DanglingHasRaised ==
    /\ pc = "failed"
    /\ \E t \in Range(json[ClassId].extendedTypes) : Dangling(t)
    /\ \A t \in TypesOfTree \ Range(json[ClassId].extendedTypes) :
            ~Dangling(t) /\ ~ZeroOrAbsent(t)

\* The nodes whose first source file has an absolute path.
Externals == {n \in DOMAIN json : External(n)}

\* The members and the constructor of the Class entity of C.
InsideClass ==
    IF ClassConverted
    THEN Range(ClassEntity.members)
            \cup (IF ClassEntity.constructor # None
                  THEN {ClassEntity.constructor} ELSE {})
    ELSE {}

\* C17: a node whose first source file has an absolute path is excluded
\* from conversion: no entity made of it is in the output list, nor among
\* the members or as the constructor of a Class entity, and its children
\* are not enqueued through it; the node is in the index all the same once
\* populate_index has run.
C17_ExternalExcluded ==
    \A n \in Externals :
        /\ Positions(n) = {}
        /\ \A e \in InsideClass : e.top.path # nodes[n].path
        /\ \A k \in Range(json[n].children) : k \notin Range(todo)
        /\ pc # "parsed" => (n \in DOMAIN index /\ index[n] = n)

\* What the code does of C17: the worklist skips the node and never
\* enqueues its children, the index holds it, and the Class entity has
\* the conversion of every child of the class, whatever its source file.
ExternalSkippedByWorklistOnly ==
    /\ \A n \in Externals :
            /\ Positions(n) = {}
            /\ \A k \in Range(json[n].children) : k \notin Range(todo)
            /\ pc # "parsed" => (n \in DOMAIN index /\ index[n] = n)
    /\ ClassConverted =>
            \A c \in Range(Kept) \cup (Range(Children) \cap {CtorId}) :
                \E e \in InsideClass : e.top.path = nodes[c].path

\* The class has been converted with a member made of a method whose
\* first source file has an absolute path.
ExternalMemberConverted ==
    /\ pc = "done"
    /\ Has(MethodId)
    /\ External(MethodId)
    /\ \E e \in InsideClass : e.top.path = nodes[MethodId].path

\* The entities made of node n, whose comment is that of node c: a
\* Function has the comment of the callable's first signature.
EntitiesOf(n) ==
    {done[i] : i \in Positions(n)}
        \cup {e \in InsideClass : e.top.path = nodes[n].path}

Commented == {<<FunctionId, GSig>>, <<ClassId, ClassId>>, <<PropId, PropId>>}

DeprecatedTags(c) == TagList(json[c].comment, "deprecated")

\* C18: an entity whose comment has a deprecated tag is marked deprecated:
\* the marker is the tag's text when the tag has text, the boolean true
\* when the tag has no text; an entity without a deprecated tag has the
\* marker false.
C18_DeprecatedMarker ==
    \A nc \in Commented :
        nc[1] \in DOMAIN json =>
            \A e \in EntitiesOf(nc[1]) :
                e.top.deprecated =
                    CASE DeprecatedTags(nc[2]) = <<>> -> Boolean(FALSE)
                      [] DeprecatedTags(nc[2]) = <<<<>>>> -> Boolean(TRUE)
                      [] OTHER -> Reason(DeprecatedTags(nc[2])[1])

\* What the code does of C18: the marker is the tag's text when the tag
\* has text, and false otherwise, with a tag as without.
DeprecatedMarkerFalseWithoutText ==
    \A nc \in Commented :
        nc[1] \in DOMAIN json =>
            \A e \in EntitiesOf(nc[1]) :
                e.top.deprecated =
                    IF DeprecatedTags(nc[2]) \in {<<>>, <<<<>>>>}
                    THEN Boolean(FALSE)
                    ELSE Reason(DeprecatedTags(nc[2])[1])

\* The function, the class and the property with "@deprecated Use h" have
\* been converted, marked with that text.
DeprecatedWithTextMarked ==
    /\ pc = "done"
    /\ \A nc \in Commented :
            /\ DeprecatedTags(nc[2]) = <<<<Text(<<"Use", "h">>)>>>>
            /\ \E e \in EntitiesOf(nc[1]) :
                    e.top.deprecated = Reason(<<Text(<<"Use", "h">>)>>)

\* What node n holds, as C20 lists it.
Holds(n) ==
    Range(json[n].children)
        \cup Range(json[n].getSignature) \cup Range(json[n].setSignature)
        \cup (IF json[n].kind \in CallableKinds \cup {"Type literal"}
              THEN Range(json[n].signatures) ELSE {})
        \cup (IF json[n].kind \in MemberKinds \cup {"Parameter"}
                    /\ json[n].type.type = "reflection"
              THEN {json[n].type.declaration} ELSE {})
        \cup (IF json[n].kind \in SignatureKinds \cup ClassOrInterfaceKinds
              THEN Range(json[n].parameters) \cup Range(json[n].typeParameter)
                    \cup Range(json[n].typeParameters)
              ELSE {})

\* The nodes of S with all that they hold, and so on.
RECURSIVE Closure(_)
Closure(S) ==
    LET T == S \cup UNION {Holds(n) : n \in S}
    IN  IF T = S THEN S ELSE Closure(T)

ReachableFromRoot == Closure({ProjectId})

\* C20: after populate_index(root), every node with an id (0 included)
\* that is reachable from the root through children, accessor signatures,
\* the signatures of callables and type literals, the declaration of a
\* reflection type in the type of a member or parameter, and the
\* parameters and type parameters of signatures and classes, is in the
\* index under its id, and the index maps that id to that node.
C20_IndexHoldsReachable ==
    pc # "parsed" =>
        \A n \in ReachableFromRoot :
            json[n].id # <<>> =>
                /\ json[n].id[1] \in DOMAIN index
                /\ index[json[n].id[1]] = n

\* C20 witness: the index of a tree whose property has the type of a type
\* literal with a call signature and whose variable has one with
\* properties holds the root under 0, the accessor's get signature, the
\* literal's signature and its parameter, and the literal's properties.
C20_Witness ==
    /\ pc = "indexed"
    /\ ReachableFromRoot = DOMAIN json
    /\ Has(PropId) /\ ReflectsCallable(PropId)
    /\ json[VarId].type.type = "reflection"
    /\ {ProjectId, GetSigId, ParamId(SigId(LitId(PropId), 1)),
        LitChildId(LitId(VarId), 2)} \subseteq DOMAIN index

\* The nodes without an id are not in the index, and the others are.
C20_WitnessNoId ==
    /\ pc = "indexed"
    /\ \E n \in DOMAIN json : json[n].id = <<>>
    /\ DOMAIN index = {n \in DOMAIN json : json[n].id # <<>>}

\* Validating the document against the Project model fails.
Invalid == Project_errors(doc, TRUE) # <<>>

\* C19: diagnostic narrowing never changes whether parsing fails:
\* parse(json) ends in a validation error exactly when validating json
\* against the Project model fails, whatever fix_exc_errors does; the
\* error is not suppressed, a successful parse is not made a failure, and
\* the validation error is not replaced by an error of another kind.
C19_FailsIffInvalid ==
    outcome # NoOutcome =>
        /\ outcome = Raised("ValidationError") <=> Invalid
        /\ ~Invalid => outcome = Returned
        /\ outcome.out = "raised" => outcome.kind = "ValidationError"

\* What the code does of C19: a valid document is returned parsed and an
\* invalid one never is; the error that ends parse is the validation
\* error, or the KeyError or TypeError that fix_exc_errors raised while
\* following a location into the document or looking a discriminator up.
ParseFailsIffInvalid ==
    outcome # NoOutcome =>
        /\ outcome = Returned <=> ~Invalid
        /\ outcome.out = "raised"
                => outcome.kind \in {"ValidationError", "KeyError", "TypeError"}

\* parse has ended in a KeyError, and in a TypeError, and in the
\* validation error with the errors narrowed.
ParseRaisedKeyError == outcome = Raised("KeyError")
ParseRaisedTypeError == outcome = Raised("TypeError")
ParseRaisedValidationError ==
    /\ outcome = Raised("ValidationError")
    /\ exc # ValidationError(Project_errors(doc, TRUE))
    /\ exc # ValidationError(Project_errors(doc, FALSE))

\* The segments parent with delim appended to the last one.
Delimited(parent, delim) ==
    [i \in 1..Len(parent) |->
        IF i = Len(parent) THEN Segment(parent[i].n, parent[i].d \o delim)
        ELSE parent[i]]

\* The segments a node contributes of its own: its name, unless it is the
\* project, a signature, a parameter or a type parameter.
OwnSegments(n) ==
    IF json[n].kind \in SignatureKinds \cup {"Project", "Parameter", "Type parameter"}
    THEN <<>>
    ELSE <<Segment(json[n].name, "")>>

\* The path the claim gives node n under parent p, whose path is parent.
ExpectedPath(n, p, parent) ==
    IF OwnSegments(n) = <<>> THEN parent
    ELSE Delimited(parent,
                   IF json[p].kind = "Class" /\ ~json[n].flags.isStatic
                   THEN "#" ELSE ".") \o OwnSegments(n)

\* C21: after populate_index, a node with segments of its own under a
\* parent with a path has the parent's segments, the delimiter appended to
\* the last of them, and then its own segments; the delimiter is "#"
\* exactly when the parent is a class and the node is not static, and "."
\* otherwise; a node without segments of its own has its parent's path;
\* and the parent's path is still the one it got (for a child of the
\* project, the segments of its file and its name).
C21_PathUnderParent ==
    pc = "indexed" =>
        \A p \in ReachableFromRoot : \A n \in Holds(p) :
            /\ (OwnSegments(n) = <<>> \/ nodes[p].path # <<>>) =>
                    nodes[n].path = ExpectedPath(n, p, nodes[p].path)
            /\ p = ProjectId =>
                    /\ nodes[p].path = <<>>
                    /\ nodes[n].path =
                        ExpectedPath(n, p,
                            make_filepath_segments(json[n].sources[1].fileName))

\* C21 witness: a class with a static method and a property and an
\* accessor that are not static, and a function in a namespace: the
\* method and the function are joined with ".", the property with "#".
C21_Witness ==
    /\ pc = "indexed"
    /\ Has(MethodId) /\ Has(PropId)
    /\ json[MethodId].flags.isStatic /\ ~json[PropId].flags.isStatic
    /\ nodes[MethodId].path =
            Delimited(nodes[ClassId].path, ".") \o <<Segment(<<"m">>, "")>>
    /\ nodes[PropId].path =
            Delimited(nodes[ClassId].path, "#") \o <<Segment(json[PropId].name, "")>>
    /\ nodes[FunctionId].path =
            Delimited(nodes[NamespaceId].path, ".") \o <<Segment(<<"g">>, "")>>
    /\ nodes[SigId(MethodId, 1)].path = nodes[MethodId].path

\* loc a is a strict prefix of loc b.
StrictPrefix(a, b) == Len(a) < Len(b) /\ SubSeq(b, 1, Len(a)) = a

PrefixDiscardedIfShort ==
    outcome = Raised("ValidationError") =>
        \A a \in Range(fix.s) :
            a \in Range(fix.seen)
                \/ \E b \in Range(fix.s) :
                        /\ StrictPrefix(a, b)
                        /\ Len(a) < Len(fix.s)
                \/ ~Discriminate(Follow(doc, a, 1).o, 1).found

\* The function and its signature both lack their name: the location of
\* the function, a strict prefix of the signature's, is re-validated too.
PrefixRevalidated ==
    /\ outcome = Raised("ValidationError")
    /\ fix.s = <<<<Key("children"), Idx(0), Key("signatures"), Idx(0)>>,
                 <<Key("children"), Idx(0)>>>>
    /\ fix.seen = fix.s

\* The entities made so far: those of the output list, and the
\* constructors and members inside its classes and interfaces.
Entities ==
    Range(done)
        \cup UNION {Range(e.members) :
                        e \in {d \in Range(done) : d.kind \in {"Class", "Interface"}}}
        \cup {e.constructor :
                e \in {d \in Range(done) : d.kind = "Class"
                                            /\ d.constructor # None}}

\* The Functions made of callable c: the entity has the path of the
\* signature it is made from, the first one of c.
MadeOf(c) ==
    {e \in Entities : /\ e.kind = "Function"
                      /\ e.top.path = nodes[json[c].signatures[1]].path}

\* The flags of node n as parsed, as the member properties of an entity.
FlagsAsParsed(n) ==
    [is_abstract |-> json[n].flags.isAbstract,
     is_optional |-> json[n].flags.isOptional,
     is_static |-> json[n].flags.isStatic,
     is_private |-> json[n].flags.isPrivate]

\* C23: every Function made of a signature has the abstract, optional,
\* static and private flags of the declaration that owns the signature
\* (the method, function, constructor or type literal), as they were when
\* populate_index visited the signature, and not those of the signature.
C23_FlagsOfOwner ==
    \A c \in Callables : \A e \in MadeOf(c) : e.member = FlagsAsParsed(c)

\* C23 witness: the optional method foop of the interface I is converted,
\* inside the Interface entity and in the output, to Functions that are
\* optional, the signature itself having no flag.
C23_Witness ==
    /\ pc = "done"
    /\ InterfaceId \in DOMAIN json
    /\ json[IMethodId].flags.isOptional
    /\ ~json[SigId(IMethodId, 1)].flags.isOptional
    /\ \E d \in Range(done) :
            /\ d.kind = "Interface"
            /\ \E e \in Range(d.members) \cap MadeOf(IMethodId) :
                    e.member.is_optional
    /\ \E i \in 1..Len(done) :
            done[i] \in MadeOf(IMethodId) /\ done[i].member.is_optional

\* C23, second witness state: the method m is abstract and its signature
\* private, and the Function made of it is abstract and not private.
C23_WitnessClass ==
    /\ pc = "done"
    /\ Has(MethodId)
    /\ json[MethodId].flags.isAbstract
    /\ json[SigId(MethodId, 1)].flags.isPrivate
    /\ \E e \in MadeOf(MethodId) :
            e.member.is_abstract /\ ~e.member.is_private

\* The entries of a list of related types that are references with an
\* integer target, in their order, and the paths the index has for them.
IntRefs(types) ==
    SelectSeq(types, LAMBDA t : t.type = "reference" /\ t.target.kind = "int")

IndexedPaths(types) ==
    [i \in 1..Len(IntRefs(types)) |-> nodes[index[IntRefs(types)[i].target.id]].path]

\* The classes and interfaces of the tree, and the entities made of one.
ClassesAndInterfaces == {n \in DOMAIN json : json[n].kind \in ClassOrInterfaceKinds}

EntitiesOfClass(n) ==
    {d \in Range(done) : d.kind = json[n].kind /\ d.top.path = nodes[n].path}

\* Nothing but a related type can make the conversion raise: every type
\* that is rendered resolves, the accessor has a signature, and every
\* related reference with an integer target is in the index.
OnlyRelatedTypesMayFail ==
    /\ \A n \in DOMAIN json : ~Unresolvable(json[n].type)
    /\ Has(AccessorId) => (HasGet \/ HasSet)
    /\ \A n \in ClassesAndInterfaces :
        \A t \in Range(IntRefs(json[n].extendedTypes))
                    \cup Range(IntRefs(json[n].implementedTypes)) :
            t.target.id \in DOMAIN index

C24_WitnessInterface ==
    /\ pc = "done"
    /\ InterfaceId \in DOMAIN json
    /\ Len(json[InterfaceId].extendedTypes) = 6
    /\ \E d \in EntitiesOfClass(InterfaceId) :
            d.supers = <<nodes[ClassId].path, nodes[BaseId].path>>

\* The renderings rs in order, with one ", " fragment before each but the
\* first.
RECURSIVE CommaJoined(_, _)
CommaJoined(rs, i) ==
    IF i > Len(rs) THEN <<>>
    ELSE (IF i = 1 THEN <<>> ELSE <<Plain(", ")>>) \o rs[i] \o CommaJoined(rs, i + 1)

RECURSIVE TotalLen(_, _)
TotalLen(rs, i) == IF i > Len(rs) THEN 0 ELSE Len(rs[i]) + TotalLen(rs, i + 1)

\* C25: for a type expression of any variant with n >= 1 type arguments,
\* render_name returns the rendering of the same expression without type
\* arguments, then "<", the renderings of the n arguments in order with
\* exactly n - 1 fragments ", " between them, then ">"; with no type
\* arguments it returns the variant's root rendering alone.
C25_TypeArguments ==
    rendering.out = "returned" =>
        LET n == Len(ty.typeArguments)
            root == render_name(nodes, index, [ty EXCEPT !.typeArguments = <<>>])
            args == [i \in 1..n |-> render_name(nodes, index, ty.typeArguments[i])]
        IN  /\ root = render_name_root(nodes, index, ty)
            /\ n = 0 => rendering.list = root
            /\ n >= 1 =>
                /\ rendering.list =
                        root \o <<Plain("<")>> \o CommaJoined(args, 1) \o <<Plain(">")>>
                /\ Len(rendering.list) = Len(root) + 2 + TotalLen(args, 1) + (n - 1)

\* C25 witness: a tuple type with two type arguments, the first of them a
\* tuple whose own rendering contains ", ", has been rendered.
C25_Witness ==
    /\ rendering.out = "returned"
    /\ ty.type = "tuple"
    /\ Len(ty.typeArguments) = 2
    /\ ty.typeArguments[1].type = "tuple"
    /\ ty.typeArguments[2].type = "reference"

\* C25, second witness state: a predicate type without type arguments.
C25_WitnessNoArguments ==
    /\ rendering.out = "returned"
    /\ ty.type = "predicate"
    /\ ty.typeArguments = <<>>
    /\ Len(rendering.list) = 3

\* The Functions made of the first signature of callable c that are in the
\* members list of a Class or Interface entity, and those that are in the
\* output list itself; they are known by the signature's path.
MemberFunctions(c) ==
    {m \in UNION {Range(d.members) :
                    d \in {e \in Range(done) : e.kind \in {"Class", "Interface"}}} :
        m.kind = "Function" /\ m.top.path = nodes[json[c].signatures[1]].path}

EmittedFunctions(c) ==
    {e \in Range(done) :
        e.kind = "Function" /\ e.top.path = nodes[json[c].signatures[1]].path}

\* The calls of Signature.to_ir on the first signature of c that made a
\* Function.
Conversions(c) == {i \in Calls(json[c].signatures[1]) : log[i].out}

\* Both conversions of a signature give the same path: once it was
\* converted twice, a Function with the signature's path is in a members
\* list and another is in the output.
SamePathTwice ==
    \A c \in Callables :
        (json[c].kind # "Constructor" /\ Cardinality(Conversions(c)) = 2) =>
            MemberFunctions(c) # {} /\ EmittedFunctions(c) # {}

\* C27: the Function in the members list of a class or interface and the
\* Function put in the output when the same method is popped from the
\* worklist have the same name and the same path, also when the name of
\* the method starts with "[" and when the path of the signature ended in
\* "__type".
C27_ReconversionIdempotent ==
    /\ SamePathTwice
    /\ \A c \in Callables :
            \A m \in MemberFunctions(c) : \A e \in EmittedFunctions(c) :
                m.top.name = e.top.name

\* The method [Symbol.iterator] of class C was converted twice: the
\* Function in the members of C is named "[Symbol<U+2024>iterator]", the
\* one in the output "[Symbol<U+2024>Symbol<U+2024>iterator]".
SymbolRenamedTwice ==
    /\ pc = "done"
    /\ Has(MethodId)
    /\ json[MethodId].name = <<"[", "iterator", "]">>
    /\ \E m \in MemberFunctions(MethodId) :
            m.top.name = <<"[", "Symbol<U+2024>", "iterator", "]">>
    /\ \E e \in EmittedFunctions(MethodId) :
            e.top.name = <<"[", "Symbol<U+2024>", "Symbol<U+2024>", "iterator", "]">>

\* The names of the two Functions differ for symbol-named methods only.
NamesDifferForSymbolsOnly ==
    \A c \in Callables :
        \A m \in MemberFunctions(c) : \A e \in EmittedFunctions(c) :
            m.top.name # e.top.name =>
                /\ json[c].name[1] = "["
                /\ e.top.name = RenameSymbol(m.top.name)

\* The property f of function type was converted twice, its signature's
\* path having lost the "__type" segment in the first conversion: both
\* Functions are named f.
TypeSuffixFixedTwice ==
    /\ pc = "done"
    /\ Has(PropId)
    /\ ReflectsCallable(PropId)
    /\ \E m \in MemberFunctions(json[PropId].type.declaration) :
        \E e \in EmittedFunctions(json[PropId].type.declaration) :
            m.top.name = e.top.name /\ m.top.name = json[PropId].name

\* The fields of a node that the conversion corrects in place: the name
\* (symbol rename, type suffix), the path (type suffix), the typeParameter
\* field (copy from the class) and the sources (copy from the callable).
Corrected(node) == <<node.name, node.path, node.typeParameter, node.sources>>

\* A conversion has read signature s: Signature.to_ir made a Function of it.
WasRead(s) == \E i \in Calls(s) : log[i].out

\* A step leaves the corrected fields of every node in the given set as
\* they were when a conversion read them.
Settled(ids) ==
    \A s \in ids \cap DOMAIN nodes :
        WasRead(s) => Corrected(nodes'[s]) = Corrected(nodes[s])

\* Every Function made of the constructor has the same type parameters,
\* in the Class entity and in the output.
CtorTypeParamsAgree ==
    (ClassConverted /\ Has(CtorId) /\ ClassEntity.constructor # None) =>
        \A i \in Positions(CtorId) :
            done[i].type_params = ClassEntity.constructor.type_params

\* C26: every corrective mutation of the tree happens before a conversion
\* reads the mutated node, so that no node changes once it was read; in
\* particular the class's type parameters are on the constructor's first
\* signature before that signature is converted, and the constructor
\* Function of the Class entity and the one put in the output have the
\* same type parameters.
C26_MutationsPrecedeReads ==
    /\ [][Settled(DOMAIN nodes)]_vars
    /\ []CtorTypeParamsAgree

\* The part of C26 about the constructor: once its first signature was
\* read, it is not changed any more.
CtorSignatureSettled == [][Settled({SigId(CtorId, 1)})]_vars

\* Apart from the name of a symbol-named signature, no corrected field
\* changes after the node was read.
SettledButSymbolNames ==
    [][\A s \in DOMAIN nodes :
        WasRead(s) =>
            /\ nodes'[s].path = nodes[s].path
            /\ nodes'[s].typeParameter = nodes[s].typeParameter
            /\ nodes'[s].sources = nodes[s].sources
            /\ nodes'[s].name # nodes[s].name =>
                    /\ nodes[s].name[1] = "["
                    /\ nodes'[s].name = RenameSymbol(nodes[s].name)]_vars

\* The constructor of a class with a type parameter was converted twice,
\* its signature having had a type parameter of its own.
CtorConvertedTwice ==
    /\ pc = "done"
    /\ Has(CtorId)
    /\ ClassTypeParams # <<>>
    /\ json[CtorSig].typeParameter # <<>>
    /\ Cardinality(Calls(CtorSig)) = 2
    /\ Positions(CtorId) # {}

\* No node is popped from the worklist twice.
PoppedAtMostOnce ==
    \A i, j \in 1..Len(pops) : i # j => pops[i] # pops[j]

\* The nodes that the to_ir of node n hands to the worklist: its children,
\* or those of its first signature.
Handed(n) ==
    Range(nodes[n].children)
        \cup (IF nodes[n].signatures # <<>>
              THEN Range(nodes[nodes[n].signatures[1]].children) ELSE {})

\* A node enters the worklist by the seeding with the root's children or
\* in the turn of the node that holds it.
EnqueuedByParent ==
    [][\A n \in Range(todo') \ Range(todo) :
            \/ pc = "indexed" /\ n \in Range(nodes[ProjectId].children)
            \/ pc = "converting" /\ n \in Handed(Popped)]_vars

\* Every step the program takes is one that Advance describes, and in a
\* turn of the loop one of the conversions is there for the popped node.
StepsAdvance == [][Advance]_vars

TurnPossible ==
    (pc = "converting" /\ todo # <<>> /\ ~IsAbsolute(nodes[Popped])) =>
        nodes[Popped].kind \in
            {"Class", "Interface"} \cup CallableKinds \cup MemberKinds
                \cup {"Accessor"} \cup OtherNodeKinds

\* The loop ends: convert_all_nodes returns or an exception leaves it.
LoopEnds == <>(pc \in {"done", "failed"})

\* convert_all_nodes returns with an empty worklist only.
ReturnsWhenEmpty == pc = "done" => todo = <<>>

\* C28: for every input tree convert_all_nodes comes to its end with an
\* empty worklist, and no node is popped from the worklist twice.
C28_TerminatesEmpty ==
    /\ <>(pc = "done" /\ todo = <<>>)
    /\ []PoppedAtMostOnce

\* A to_ir call has raised with nodes left on the worklist.
RaisedWithWorkLeft ==
    /\ pc = "failed"
    /\ todo # <<>>
    /\ HasDangling

\* The conversion of a tree has returned after every node below the root
\* that is not held by a skipped node was popped once.
AllPoppedOnce ==
    /\ pc = "done"
    /\ Len(pops) >= 8
    /\ PoppedAtMostOnce

\* No two children of the same parent have both the same name and the
\* same static flag.
SiblingsDiffer ==
    \A p \in DOMAIN json :
        \A i, j \in 1..Len(json[p].children) :
            i # j =>
                LET a == json[json[p].children[i]]
                    b == json[json[p].children[j]]
                IN  a.name # b.name \/ a.flags.isStatic # b.flags.isStatic

ReverseAll(t) == [n \in DOMAIN t |-> [t[n] EXCEPT !.children = Rev(@)]]

ClassInOrder(t) ==
    [t EXCEPT ![ClassId].children =
        SelectSeq(FullOrder, LAMBDA c : c \in Range(t[ClassId].children))]

Rearranged == {ReverseAll(json), ClassInOrder(json), ReverseAll(ClassInOrder(json))}

\* The path populate_index computes for every node of tree t, and the kind
\* and path of every entity convert_all_nodes makes of t.
Indexed(t) == populate_index(t, ProjectId)

PathsOf(t) == [n \in DOMAIN t |-> Indexed(t).ns[n].path]

Converted(st) ==
    convert_all_nodes([ns |-> st.ns, lg |-> <<>>, err |-> FALSE, idx |-> st.idx],
                      st.ns[ProjectId].children, <<>>)

Looks(out) == {<<e.kind, e.top.path>> : e \in Range(out)}

\* C30: the paths do not depend on the order of siblings: populate_index
\* computes for every node of a tree the path it computes for that node
\* in the tree with the children rearranged, and convert_all_nodes makes
\* entities of the same kinds and paths of both trees.
C30_SiblingOrderFree ==
    /\ pc = "indexed" =>
            \A t \in Rearranged : \A n \in DOMAIN json :
                nodes[n].path = PathsOf(t)[n]
    /\ pc = "done" =>
            \A t \in Rearranged :
                /\ ~Converted(Indexed(t)).err
                /\ Looks(Converted(Indexed(t)).done) = Looks(done)

\* C30 witness: the conversion has returned for a class whose three or
\* more children are not in the order constructor, method, property,
\* accessor, and the rearranged trees differ from the tree.
C30_Witness ==
    /\ pc = "done"
    /\ Len(json[ClassId].children) >= 3
    /\ json[ClassId].children # ClassInOrder(json)[ClassId].children
    /\ json \notin Rearranged
    /\ Len(done) >= 7

====
